---- MODULE Spec2Model ----
(***************************************************************************)
(* Live synchronisation core of the song-request front end.                *)
(*                                                                         *)
(* Two pages are modelled, each a single-threaded event loop:              *)
(*   - the queue manager dashboard (queue_manager/public/queue_manager.js):*)
(*     fetchQueue with its in-flight guard, selection reconciliation, the  *)
(*     queue change-notification stream (EventSource) and the channel      *)
(*     event feed (WebSocket);                                             *)
(*   - the queue overlay (queue_manager/public/overlay.js, lines 1-340):   *)
(*     refreshQueue with its AbortController and the queue stream.         *)
(* A behaviour is one page instance: Init picks the page.  Every action is *)
(* one task of the event loop: a handler run to its next await, or the     *)
(* continuation that runs when an awaited promise settles.                 *)
(***************************************************************************)
EXTENDS Integers, Sequences, FiniteSets, TLC

\* ------------------------------------------------------------------ bounds
\* Longest queue the modelled server returns in the selection specification.
MaxQueueLen == 1
\* Cap on previewSearchToken (an unbounded counter in the code).
MaxToken == 3
\* WebSocket objects that may exist at once (live, or closed by the page and
\* still waiting for the browser to deliver their close event).
MaxSockets == 2
\* EventSource objects the page may hold at once.
MaxSources == 2
\* Timeouts that may be armed at once.
MaxTimers == 3
\* Overlay refreshQueue invocations that may be outstanding at once.
MaxOverlayFetches == 2
MaxFeed == 3
MaxEvents == 18

\* ------------------------------------------------------ program constants
\* `let currentPreviewRequestId = null`: request ids are positive, and the code
\* tests the id by truthiness, so the empty selection is the falsy id 0.
NoRequest == 0
\* `let queueStream = null`, `let channelEventSocket = null`, timers `= null`.
NoObject == 0
\* setTimeout(connectQueueStream, 5000) / setTimeout(connectChannelEvents, 5000)
RECONNECT_DELAY == 5000
\* The id a variable still holds after its timeout has fired: it is truthy and
\* names no armed timeout (the browser never reuses a timeout id).
FiredTimer == MaxTimers + 1

NULL == "<null>"

\* ------------------------------------------------------------------ data
YouTubeLink == "https://youtu.be/dQw4w9WgXcQ"

\* ytId(url): the 11-character video id of a YouTube link, else null.
ytId(url) ==
  IF url = YouTubeLink THEN "dQw4w9WgXcQ" ELSE NULL

\* JavaScript `value || ''`.
OrEmpty(value) ==
  IF value = NULL THEN "" ELSE value

\* Songs the modelled server returns.  SongNullLink and SongEmptyLink differ
\* as objects (null against '') and share one source key.
SongNullLink == [artist |-> "A", title |-> "T", youtube_link |-> NULL]
SongEmptyLink == [artist |-> "A", title |-> "T", youtube_link |-> ""]
SongVideo == [artist |-> "A", title |-> "T", youtube_link |-> YouTubeLink]

Songs == {SongNullLink, SongEmptyLink, SongVideo}

\* Request ids the modelled server hands out (database keys, positive).
RequestIds == {1, 2}

QueueEntry(id, song) == [id |-> id, song |-> song]

QueueEntries == {QueueEntry(id, song) : id \in RequestIds, song \in Songs}

DistinctIds(q) ==
  \A i, j \in 1..Len(q) : q[i].id = q[j].id => i = j

\* Queues of at most n entries with distinct request ids.
QueuesUpTo(n) ==
  UNION {{q \in [1..k -> QueueEntries] : DistinctIds(q)} : k \in 0..n}

\* A response body: a JSON array of entries, JSON that is no array, or text
\* that resp.json() rejects.
ArrayBody(q) == [kind |-> "array", data |-> q]
OtherJsonBody == [kind |-> "other", data |-> <<>>]
MalformedBody == [kind |-> "malformed", data |-> <<>>]
NoBody == [kind |-> "none", data |-> <<>>]

\* Bodies of the selection specification and of the connection specification.
SelectionBodies ==
  {ArrayBody(q) : q \in QueuesUpTo(MaxQueueLen)} \cup {OtherJsonBody, MalformedBody}

ConnectionBodies ==
  {ArrayBody(<<>>), ArrayBody(<<QueueEntry(1, SongVideo)>>), MalformedBody}

Channels == {"c1", "c2"}

\* buildPreviewSourceKey(song)
buildPreviewSourceKey(song) ==
  OrEmpty(song.artist) \o "|||" \o OrEmpty(song.title) \o "|||" \o OrEmpty(song.youtube_link)

VARIABLES
  page,                     \* which page this instance is: "manager" | "overlay" |
                            \* "landing" | "popup" | "ticker"
  \* ---- queue manager: bootstrap
  bootStage,                \* "setup" | "config" | "token" | "ready" | "blocked"
  setupGuard,               \* text of #setup-guard ("" when hidden)
  channelButtons,           \* channels selectable in the page
  \* ---- queue manager: channel and queue synchroniser
  channelName,              \* '' or the selected channel
  queueFetchActive,
  queueFetchQueued,
  queueFetches,             \* fetchQueue invocations suspended at an await
  staleNotice,              \* history: a `queue` notification no request was issued after
  fetchSerial,              \* history: parity of the number of queue requests issued
  reconciled,               \* history: how the latest fetchQueue invocation that ended
                            \* did so: the reconcile branch, "rejected", or "not ok"
  queueRows,                \* the rows of #queue, as rendered last
  selectedRows,             \* ids of the rows carrying class "selected"
  \* ---- queue manager: selection / preview
  currentPreviewRequestId,
  currentPreviewSourceKey,
  currentPreviewVideoId,
  currentPreviewLink,
  previewSearchToken,
  previewSearches,          \* loadPreviewForRequest invocations suspended at an await
  previewResults,           \* what the results list of the preview shows
  searchWindow,             \* how many of the newest searches in flight the model records
  \* ---- browser objects of the page
  sources,                  \* EventSource objects: id -> [state, attached]
  sockets,                  \* WebSocket objects: id -> [state, attached]
  timers,                   \* armed timeouts: records [id, callback, delay]
  \* ---- queue manager: queue change-notification stream
  queueStream,
  queueStreamTimer,
  \* ---- queue manager: channel event feed
  eventFeedEl,              \* whether #event-feed exists in the page
  eventFeed,                \* the children of #event-feed the model records
  feedWindow,               \* how many of the newest feed entries the model records
  delivered,                \* history: the messages delivered since the feed was cleared
  channelEventSocket,
  channelEventTimer,
  channelEventShouldReconnect,
  eventStatus,              \* text of #event-status
  \* ---- queue overlay
  overlayStage,             \* "load" | "fatal" (no channel) | "running"
  eventSource,
  pendingFetch,             \* the AbortController of the latest refreshQueue, or null
  overlayFetches,           \* refreshQueue invocations: id -> "free" | "running" | "aborted"
  overlayMessage,           \* what #overlay-root shows
  pollTimer,                \* whether the 45 s polling interval is armed
  documentHidden,
  \* ---- public landing page (web/public/app.js)
  landingStage,             \* "check" | "blocked" | "ready"
  landingGrid,              \* whether #channels-grid exists in the page
  landingLoading,
  landingInterval,          \* whether the 30 s refresh interval is armed
  landingLoads,             \* loadLandingChannels invocations suspended at an await
  \* ---- event overlay: popup sequencer and ticker
  arrived,                  \* number of events pushed so far; events are 1..arrived
  popupQueue,
  popupCards,               \* cards on screen: records [event, state]
  popupShown,               \* history: the events promoted to a card, in order
  tickerBuffer,
  \* ---- admin and stats pages
  botConsoleLog,            \* whether #bot-console-log exists
  botConsoleSource,         \* whether botConsoleSource holds an EventSource
  consoleRows,              \* the rows of #bot-console-log, oldest first
  consoleAppended,          \* history: rows appended since the console was emptied
  songCache,                \* key -> the promise stored under it (NoObject: no entry)
  userCache,
  promises,                 \* the promises the lookups created, in creation order
  lookups                   \* history: the getSong / getUser calls made, in order

syncVars == <<queueFetchActive, queueFetchQueued, queueFetches, staleNotice, fetchSerial>>
previewVars == <<currentPreviewRequestId, currentPreviewSourceKey, currentPreviewVideoId,
                 currentPreviewLink, previewSearchToken, previewSearches, previewResults,
                 searchWindow>>
rowVars == <<queueRows, selectedRows, reconciled>>

connVars == <<sources, sockets, timers, queueStream, queueStreamTimer,
              channelEventSocket, channelEventTimer, channelEventShouldReconnect, eventStatus,
              eventFeed>>
bootVars == <<bootStage, setupGuard, channelButtons>>
feedVars == <<feedWindow, delivered>>
landingVars == <<landingStage, landingGrid, landingLoading, landingInterval, landingLoads>>
eventsVars == <<arrived, popupQueue, popupCards, popupShown, tickerBuffer>>
adminVars == <<botConsoleLog, botConsoleSource, consoleRows, consoleAppended, songCache, userCache, promises, lookups>>
foreignVars == <<landingVars, eventsVars, adminVars>>

managerVars == <<channelName, eventFeedEl, syncVars, previewVars, rowVars,
                 queueStream, queueStreamTimer, sockets, channelEventSocket,
                 channelEventTimer, channelEventShouldReconnect, eventStatus,
                 eventFeed, bootVars, feedVars>>
overlayVars == <<overlayStage, eventSource, pendingFetch, overlayFetches, overlayMessage,
                 pollTimer, documentHidden>>

vars == <<page, channelName, eventFeedEl, syncVars, previewVars, rowVars, connVars,
          bootVars, feedVars, overlayVars, foreignVars>>

\* ------------------------------------------------- selection and preview
\* The preview state as one value, so that handlers compose.
PreviewState ==
  [requestId |-> currentPreviewRequestId, sourceKey |-> currentPreviewSourceKey,
   videoId |-> currentPreviewVideoId, link |-> currentPreviewLink,
   token |-> previewSearchToken, searches |-> previewSearches, results |-> previewResults]

\* The newest searchWindow searches in flight.
SearchWindow(searches) ==
  IF Len(searches) <= searchWindow THEN searches
  ELSE SubSeq(searches, Len(searches) - searchWindow + 1, Len(searches))

SetPreview(p) ==
  /\ currentPreviewRequestId' = p.requestId
  /\ currentPreviewSourceKey' = p.sourceKey
  /\ currentPreviewVideoId' = p.videoId
  /\ currentPreviewLink' = p.link
  /\ previewSearchToken' = p.token
  /\ previewSearches' = SearchWindow(p.searches)
  /\ previewResults' = p.results
  /\ searchWindow' = searchWindow

\* resetPreviewState()
resetPreviewState(p) ==
  [requestId |-> NoRequest, sourceKey |-> NULL, videoId |-> NULL, link |-> "",
   token |-> p.token + 1, searches |-> p.searches, results |-> "default"]

\* loadPreviewForRequest(entry), up to its first await: the search for the
\* song is under way (every song of Songs has a search term).
loadPreviewForRequest(entry, p) ==
  LET requestVideoId == ytId(entry.song.youtube_link)
      canonicalLink == OrEmpty(entry.song.youtube_link)
  IN [p EXCEPT !.link = canonicalLink, !.videoId = requestVideoId, !.token = @ + 1,
               !.results = "Searching...",
               !.searches = Append(@, [token |-> p.token + 1,
                                       requestVideoId |-> requestVideoId])]

\* The first playable result of a search that found something.
ResultVideo == "r1r1r1r1r1r"
ResultLink == "https://www.youtube.com/watch?v=r1r1r1r1r1r"

SearchOutcomes == {"results", "unplayable", "empty", "failed"}

\* Faulty variant of searchSettles: the token is not looked at.
searchSettlesUnchecked(search, outcome, p) ==
  CASE outcome = "results" ->
         IF search.requestVideoId = NULL
           THEN [p EXCEPT !.results = "results", !.videoId = ResultVideo, !.link = ResultLink]
           ELSE [p EXCEPT !.results = "results"]
    [] outcome = "unplayable" ->
         IF search.requestVideoId = NULL
           THEN [p EXCEPT !.results = "results", !.videoId = NULL]
           ELSE [p EXCEPT !.results = "results"]
    [] outcome = "empty" -> [p EXCEPT !.results = "No results found."]
    [] OTHER -> [p EXCEPT !.results = "Search failed. Try again later."]

\* loadPreviewForRequest after its awaits (lines 566-603): the search
\* answered with results, with results none of which has a video id, with
\* no results, or failed (rejected fetch, non-OK status, body not JSON).
searchSettles(search, outcome, p) ==
  IF search.token # p.token THEN p
  ELSE CASE outcome = "results" ->
              IF search.requestVideoId = NULL
                THEN [p EXCEPT !.results = "results", !.videoId = ResultVideo,
                               !.link = ResultLink]
                ELSE [p EXCEPT !.results = "results"]
         [] outcome = "unplayable" ->
              IF search.requestVideoId = NULL
                THEN [p EXCEPT !.results = "results", !.videoId = NULL]
                ELSE [p EXCEPT !.results = "results"]
         [] outcome = "empty" -> [p EXCEPT !.results = "No results found."]
         [] OTHER -> [p EXCEPT !.results = "Search failed. Try again later."]

\* selectQueueRequest(entry, { force }), up to its first await.
selectQueueRequest(entry, force, p) ==
  LET requestId == entry.id
      sourceKey == buildPreviewSourceKey(entry.song)
      shouldReload == force \/ requestId # p.requestId \/ sourceKey # p.sourceKey
      selected == [p EXCEPT !.requestId = requestId, !.sourceKey = sourceKey]
  IN IF shouldReload THEN loadPreviewForRequest(entry, selected) ELSE selected

\* highlightQueueSelection(): the rows left carrying class "selected".
highlightQueueSelection(rows, requestId) ==
  {rows[i].id : i \in {j \in 1..Len(rows) : requestId # NoRequest /\ rows[j].id = requestId}}

\* The entry fetchQueue's forEach leaves in matchedEntry (the last match), as a
\* set: empty when no row has the selected id.
MatchedEntries(data, requestId) ==
  {data[i] : i \in {j \in 1..Len(data) :
      /\ data[j].id = requestId
      /\ \A k \in (j + 1)..Len(data) : data[k].id # requestId}}

\* The branch of lines 1250-1268 a refresh takes.
ReconcileBranch(data, p) ==
  IF Len(data) = 0 THEN "empty"
  ELSE IF p.requestId = NoRequest THEN "unselected"
  ELSE IF MatchedEntries(data, p.requestId) = {} THEN "absent"
  ELSE IF \E e \in MatchedEntries(data, p.requestId) :
             buildPreviewSourceKey(e.song) # p.sourceKey THEN "changed"
  ELSE "same"

\* Faulty variants of ReconcileSelection, used to show that the selection
\* properties depend on it: reloading although nothing changed, keeping a
\* selection whose request is gone, and never reloading a changed entry.
ReconcileAlwaysReload(data, p) ==
  IF Len(data) = 0 \/ (p.requestId # NoRequest /\ MatchedEntries(data, p.requestId) = {})
    THEN resetPreviewState(p)
  ELSE IF p.requestId # NoRequest
    THEN selectQueueRequest(CHOOSE e \in MatchedEntries(data, p.requestId) : TRUE, TRUE, p)
  ELSE p

ReconcileKeepAbsent(data, p) ==
  IF Len(data) = 0 THEN resetPreviewState(p)
  ELSE IF p.requestId # NoRequest /\ MatchedEntries(data, p.requestId) # {}
    THEN LET matchedEntry == CHOOSE e \in MatchedEntries(data, p.requestId) : TRUE
         IN IF buildPreviewSourceKey(matchedEntry.song) # p.sourceKey
              THEN selectQueueRequest(matchedEntry, TRUE, p)
              ELSE p
  ELSE p

ReconcileNeverReload(data, p) ==
  IF Len(data) = 0 \/ (p.requestId # NoRequest /\ MatchedEntries(data, p.requestId) = {})
    THEN resetPreviewState(p)
  ELSE p

\* fetchQueue lines 1250-1268: reconcile the selection with the rows just rendered.
ReconcileSelection(data, p) ==
  IF Len(data) = 0 THEN resetPreviewState(p)
  ELSE IF p.requestId # NoRequest
    THEN IF MatchedEntries(data, p.requestId) # {}
      THEN LET matchedEntry == CHOOSE e \in MatchedEntries(data, p.requestId) : TRUE
           IN IF buildPreviewSourceKey(matchedEntry.song) # p.sourceKey
                THEN selectQueueRequest(matchedEntry, TRUE, p)
                ELSE p
      ELSE resetPreviewState(p)
    ELSE p

\* ---------------------------------------------------- queue synchroniser
SyncState ==
  [active |-> queueFetchActive, queued |-> queueFetchQueued, fetches |-> queueFetches,
   stale |-> staleNotice, serial |-> fetchSerial]

SetSync(s) ==
  /\ queueFetchActive' = s.active
  /\ queueFetchQueued' = s.queued
  /\ queueFetches' = s.fetches
  /\ staleNotice' = s.stale
  /\ fetchSerial' = s.serial

\* Faulty variants of fetchQueue: without the in-flight guard, and with a
\* guard that forgets to set queueFetchQueued.
fetchQueueUnguarded(ch, s) ==
  IF ch = "" THEN s
  ELSE [s EXCEPT !.active = TRUE,
                 !.stale = FALSE,
                 !.serial = 1 - @,
                 !.fetches = Append(@, [phase |-> "fetch", channel |-> ch, body |-> NoBody,
                                        serial |-> 1 - s.serial, trailing |-> FALSE])]

fetchQueueDropping(ch, s) ==
  IF ch = "" \/ s.active THEN s
  ELSE [s EXCEPT !.active = TRUE,
                 !.stale = FALSE,
                 !.serial = 1 - @,
                 !.fetches = Append(@, [phase |-> "fetch", channel |-> ch, body |-> NoBody,
                                        serial |-> 1 - s.serial, trailing |-> FALSE])]

\* fetchQueue(), up to its first await (lines 1136-1145).
fetchQueue(ch, s) ==
  IF ch = "" THEN s
  ELSE IF s.active THEN [s EXCEPT !.queued = TRUE]
  ELSE [s EXCEPT !.active = TRUE,
                 !.stale = FALSE,
                 !.serial = 1 - @,
                 !.fetches = Append(@, [phase |-> "fetch", channel |-> ch, body |-> NoBody,
                                        serial |-> 1 - s.serial, trailing |-> FALSE])]

\* Faulty variant of the finally block: the flag is cleared and no trailing
\* fetchQueue() is made.
fetchQueueFinallyNoTrailing(ch, s) ==
  [s EXCEPT !.active = FALSE, !.queued = FALSE]

\* The finally block of fetchQueue (lines 1269-1275). The request its
\* fetchQueue() call issues is marked `trailing` (history only).
fetchQueueFinally(ch, s) ==
  LET released == [s EXCEPT !.active = FALSE]
      again == fetchQueue(ch, [released EXCEPT !.queued = FALSE])
  IN IF released.queued
       THEN [again EXCEPT !.fetches =
               [j \in 1..Len(@) |->
                  IF j > Len(released.fetches) THEN [@[j] EXCEPT !.trailing = TRUE] ELSE @[j]]]
       ELSE released

RemoveAt(seq, i) ==
  [j \in 1..(Len(seq) - 1) |-> IF j < i THEN seq[j] ELSE seq[j + 1]]

\* ------------------------------------------------------ browser objects
Free == [state |-> "free", attached |-> FALSE]

Live(object) == object.state \in {"connecting", "open"}

Min(S) == CHOOSE x \in S : \A y \in S : x <= y

\* An id for a new EventSource: an unused one, or that of a closed object
\* (a closed EventSource delivers no further event: it is garbage).
NewSourceId(pool) ==
  LET free == {i \in 1..MaxSources : pool[i].state \in {"free", "closed"}}
  IN IF free = {} THEN NoObject ELSE Min(free)

\* An id for a new WebSocket: one whose object has delivered its close event
\* (after `close` a WebSocket delivers nothing further and is released).
NewSocketId(pool) ==
  LET free == {i \in 1..MaxSockets : pool[i] = Free}
  IN IF free = {} THEN NoObject ELSE Min(free)

NewTimerId(armed) ==
  LET free == (1..MaxTimers) \ {t.id : t \in armed}
  IN IF free = {} THEN NoObject ELSE Min(free)

\* clearTimeout(id)
clearTimeout(armed, id) == {t \in armed : t.id # id}

\* The connection state of the queue manager as one value, so that handlers
\* compose; `full` records that an object pool of the model ran out.
ConnState ==
  [sources |-> sources, sockets |-> sockets, timers |-> timers,
   stream |-> queueStream, streamTimer |-> queueStreamTimer,
   socket |-> channelEventSocket, socketTimer |-> channelEventTimer,
   shouldReconnect |-> channelEventShouldReconnect, status |-> eventStatus,
   feed |-> eventFeed, full |-> FALSE]

\* The newest feedWindow entries of a feed.
Window(feed) ==
  IF Len(feed) <= feedWindow THEN feed
  ELSE SubSeq(feed, Len(feed) - feedWindow + 1, Len(feed))

SetConn(c) ==
  /\ ~c.full
  /\ sources' = c.sources
  /\ sockets' = c.sockets
  /\ timers' = c.timers
  /\ queueStream' = c.stream
  /\ queueStreamTimer' = c.streamTimer
  /\ channelEventSocket' = c.socket
  /\ channelEventTimer' = c.socketTimer
  /\ channelEventShouldReconnect' = c.shouldReconnect
  /\ eventStatus' = c.status
  /\ eventFeed' = Window(c.feed)

\* ------------------------------------------------------- event feed
EVENT_FEED_LIMIT == 200

\* `new Date().toISOString()`
Now == "<now>"

\* A JSON value as far as handleEventMessage looks into it: its kind, its
\* text, and for an object its own properties type, payload and timestamp.
Absent == [kind |-> "absent", text |-> ""]
Field(kind, text) == [kind |-> kind, text |-> text]
JsonValue(kind, text, type, payload, timestamp) ==
  [kind |-> kind, text |-> text, type |-> type, payload |-> payload, timestamp |-> timestamp]
JsonScalar(kind, text) == JsonValue(kind, text, Absent, Absent, Absent)
SyntaxError == JsonScalar("SyntaxError", "")

FlatMessage == "type=queue.status;status=open"
FullMessage ==
  "{\"type\":\"queue.status\",\"payload\":{\"status\":\"open\"},\"timestamp\":\"t1\"}"
BareMessage == "{\"type\":7}"
BlankTypeMessage == "{\"type\":\"\",\"payload\":\"hi\"}"

\* The texts a socket delivers in the model.
Messages == {"", "{bad", FlatMessage, "null", "[1]", FullMessage, BareMessage,
             BlankTypeMessage}

\* JSON.parse(text) on the texts of Messages.
JSONparse(text) ==
  CASE text = "null" -> JsonScalar("null", "null")
    [] text = "[1]" -> JsonScalar("array", "[1]")
    [] text = FullMessage ->
         JsonValue("object", text, Field("string", "queue.status"),
                   Field("object", "{\"status\":\"open\"}"), Field("string", "t1"))
    [] text = BareMessage ->
         JsonValue("object", text, Field("number", "7"), Absent, Absent)
    [] text = BlankTypeMessage ->
         JsonValue("object", text, Field("string", ""), Field("string", "hi"), Absent)
    [] OTHER -> SyntaxError

\* Truthiness of a property value.
Truthy(f) ==
  CASE f.kind \in {"absent", "null"} -> FALSE
    [] f.kind = "string" -> f.text # ""
    [] f.kind = "number" -> f.text # "0"
    [] OTHER -> TRUE

\* An entry of the feed: the type shown, the payload the body shows (a string
\* as it is, any other value through JSON.stringify) and the timestamp
\* handed to formatEventTimestamp.
FeedEntry(type, payload, timestamp) ==
  [type |-> type, payload |-> payload, timestamp |-> timestamp]

\* Faulty variant of appendEventEntry: the entry goes to the top of the feed.
appendEventEntryOnTop(type, payload, timestamp, c) ==
  LET added == <<FeedEntry(IF type = "" THEN "event" ELSE type, payload, timestamp)>> \o c.feed
  IN IF ~eventFeedEl THEN c
     ELSE [c EXCEPT !.feed = IF Len(added) > EVENT_FEED_LIMIT
                               THEN SubSeq(added, Len(added) - EVENT_FEED_LIMIT + 1, Len(added))
                               ELSE added]

\* appendEventEntry(type, payload, timestamp), lines 2155-2191
appendEventEntry(type, payload, timestamp, c) ==
  LET added == Append(c.feed, FeedEntry(IF type = "" THEN "event" ELSE type, payload, timestamp))
  IN IF ~eventFeedEl THEN c
     ELSE [c EXCEPT !.feed = IF Len(added) > EVENT_FEED_LIMIT
                               THEN SubSeq(added, Len(added) - EVENT_FEED_LIMIT + 1, Len(added))
                               ELSE added]

\* clearEventFeed(), lines 2130-2133
clearEventFeed(c) ==
  IF ~eventFeedEl THEN c ELSE [c EXCEPT !.feed = <<>>]

\* Faulty variant of handleEventMessage: JSON.parse outside any try block,
\* so a SyntaxError ends the handler.
handleEventMessageNoCatch(data, c) ==
  LET parsed == JSONparse(data)
      isObject == parsed.kind \in {"object", "array"}
      type == IF isObject /\ parsed.type.kind = "string" THEN parsed.type.text ELSE "event"
      timestamp == IF isObject /\ Truthy(parsed.timestamp) THEN parsed.timestamp.text ELSE Now
      payload == IF isObject /\ parsed.payload # Absent
                   THEN parsed.payload
                   ELSE Field(parsed.kind, parsed.text)
  IN IF parsed = SyntaxError THEN c
     ELSE appendEventEntry(type, payload, timestamp, c)

\* handleEventMessage(data), lines 2193-2212
handleEventMessage(data, c) ==
  LET parsed == JSONparse(data)
      isObject == parsed.kind \in {"object", "array"}
      type == IF isObject /\ parsed.type.kind = "string" THEN parsed.type.text ELSE "event"
      timestamp == IF isObject /\ Truthy(parsed.timestamp) THEN parsed.timestamp.text ELSE Now
      payload == IF isObject /\ parsed.payload # Absent
                   THEN parsed.payload
                   ELSE Field(parsed.kind, parsed.text)
  IN IF parsed = SyntaxError
       THEN appendEventEntry("raw", Field("string", data), Now, c)
       ELSE appendEventEntry(type, payload, timestamp, c)

\* queueStreamTimer = setTimeout(connectQueueStream, 5000)
ScheduleQueueStream(c) ==
  LET id == NewTimerId(c.timers)
  IN IF id = NoObject THEN [c EXCEPT !.full = TRUE]
     ELSE [c EXCEPT !.streamTimer = id,
                    !.timers = @ \cup {[id |-> id, callback |-> "connectQueueStream",
                                        delay |-> RECONNECT_DELAY]}]

\* channelEventTimer = setTimeout(connectChannelEvents, 5000)
ScheduleChannelEvents(c) ==
  LET id == NewTimerId(c.timers)
  IN IF id = NoObject THEN [c EXCEPT !.full = TRUE]
     ELSE [c EXCEPT !.socketTimer = id,
                    !.timers = @ \cup {[id |-> id, callback |-> "connectChannelEvents",
                                        delay |-> RECONNECT_DELAY]}]

\* ------------------------------------- queue manager: queue stream
\* teardownQueueStream(): close() leaves the handlers on the object.
teardownQueueStream(c) ==
  LET closed == IF c.stream # NoObject
                  THEN [c EXCEPT !.sources[c.stream].state = "closed", !.stream = NoObject]
                  ELSE c
  IN IF closed.streamTimer # NoObject
       THEN [closed EXCEPT !.timers = clearTimeout(@, closed.streamTimer),
                           !.streamTimer = NoObject]
       ELSE closed

\* connectQueueStream(); `throws` is whether `new EventSource(url)` throws.
connectQueueStream(ch, throws, c) ==
  LET torn == teardownQueueStream(c)
      id == NewSourceId(torn.sources)
  IN IF ch = "" THEN torn
     ELSE IF throws THEN ScheduleQueueStream(torn)
     ELSE IF id = NoObject THEN [torn EXCEPT !.full = TRUE]
     ELSE [torn EXCEPT !.stream = id,
                       !.sources[id] = [state |-> "connecting", attached |-> TRUE]]

\* Faulty variant of the stream's onerror: the retry is armed and the
\* stream is left as it is.
queueStreamOnErrorNoTeardown(c) ==
  ScheduleQueueStream(c)

\* queueStream.onerror (lines 2103-2106)
queueStreamOnError(c) ==
  ScheduleQueueStream(teardownQueueStream(c))

\* ------------------------------------- queue manager: channel event feed
\* (the status texts are written with "..." for the code's ellipsis character)
\* Faulty variant of teardownChannelEvents: the reconnect timer is left armed.
teardownChannelEventsKeepTimer(c) ==
  LET stopped == [c EXCEPT !.shouldReconnect = FALSE]
      closed == IF stopped.socket # NoObject
                  THEN [stopped EXCEPT
                          !.sockets[stopped.socket] =
                             [state |-> IF Live(@) THEN "closing" ELSE @.state,
                              attached |-> FALSE],
                          !.socket = NoObject]
                  ELSE stopped
  IN [closed EXCEPT !.status = "Disconnected"]

\* teardownChannelEvents(): the four handlers are nulled, then close().
teardownChannelEvents(c) ==
  LET stopped == [c EXCEPT !.shouldReconnect = FALSE]
      cleared == IF stopped.socketTimer # NoObject
                   THEN [stopped EXCEPT !.timers = clearTimeout(@, stopped.socketTimer),
                                        !.socketTimer = NoObject]
                   ELSE stopped
      closed == IF cleared.socket # NoObject
                  THEN [cleared EXCEPT
                          !.sockets[cleared.socket] =
                             [state |-> IF Live(@) THEN "closing" ELSE @.state,
                              attached |-> FALSE],
                          !.socket = NoObject]
                  ELSE cleared
  IN [closed EXCEPT !.status = "Disconnected"]

\* Faulty variant of connectChannelEvents: the previous socket is not torn down.
connectChannelEventsNoTeardown(ch, feed, throws, c) ==
  LET wanted == [c EXCEPT !.shouldReconnect = TRUE, !.status = "Connecting..."]
      id == NewSocketId(c.sockets)
  IN IF ch = "" \/ ~feed THEN c
     ELSE IF throws THEN ScheduleChannelEvents([wanted EXCEPT !.status = "Connection failed"])
     ELSE IF id = NoObject THEN [c EXCEPT !.full = TRUE]
     ELSE [wanted EXCEPT !.socket = id,
                         !.sockets[id] = [state |-> "connecting", attached |-> TRUE]]

\* connectChannelEvents(); `throws` is whether `new WebSocket(url)` throws.
connectChannelEvents(ch, feed, throws, c) ==
  LET torn == teardownChannelEvents(c)
      wanted == [torn EXCEPT !.shouldReconnect = TRUE, !.status = "Connecting..."]
      id == NewSocketId(torn.sockets)
  IN IF ch = "" \/ ~feed THEN torn
     ELSE IF throws THEN ScheduleChannelEvents([wanted EXCEPT !.status = "Connection failed"])
     ELSE IF id = NoObject THEN [torn EXCEPT !.full = TRUE]
     ELSE [wanted EXCEPT !.socket = id,
                         !.sockets[id] = [state |-> "connecting", attached |-> TRUE]]

\* Faulty variant of onopen: the status text is left as it was.
channelEventOnOpenSilent(c) ==
  LET cleared == IF c.socketTimer # NoObject
                   THEN [c EXCEPT !.timers = clearTimeout(@, c.socketTimer),
                                  !.socketTimer = NoObject]
                   ELSE c
  IN appendEventEntry("system", Field("string", "Connected to channel event feed."), Now,
                      cleared)

\* channelEventSocket.onopen (lines 2247-2254)
channelEventOnOpen(c) ==
  LET cleared == IF c.socketTimer # NoObject
                   THEN [c EXCEPT !.timers = clearTimeout(@, c.socketTimer),
                                  !.socketTimer = NoObject]
                   ELSE c
  IN appendEventEntry("system", Field("string", "Connected to channel event feed."), Now,
                      [cleared EXCEPT !.status = "Connected"])

\* channelEventSocket.onerror (lines 2258-2261)
channelEventOnError(c) ==
  [c EXCEPT !.status = "Connection error"]

\* Faulty variant of onclose: the status changes but no retry is armed.
channelEventOnCloseNoRetry(c) ==
  LET dropped == [c EXCEPT !.socket = NoObject]
      cleared == IF dropped.socketTimer # NoObject
                   THEN [dropped EXCEPT !.timers = clearTimeout(@, dropped.socketTimer),
                                        !.socketTimer = NoObject]
                   ELSE dropped
  IN IF cleared.shouldReconnect
       THEN appendEventEntry("system",
                             Field("string", "Connection closed. Attempting to reconnect..."),
                             Now, [cleared EXCEPT !.status = "Reconnecting..."])
       ELSE appendEventEntry("system", Field("string", "Disconnected from channel event feed."),
                             Now, [cleared EXCEPT !.status = "Disconnected"])

\* channelEventSocket.onclose (lines 2262-2276)
channelEventOnClose(c) ==
  LET dropped == [c EXCEPT !.socket = NoObject]
      cleared == IF dropped.socketTimer # NoObject
                   THEN [dropped EXCEPT !.timers = clearTimeout(@, dropped.socketTimer),
                                        !.socketTimer = NoObject]
                   ELSE dropped
  IN IF cleared.shouldReconnect
       THEN ScheduleChannelEvents(
              appendEventEntry("system",
                               Field("string", "Connection closed. Attempting to reconnect..."),
                               Now, [cleared EXCEPT !.status = "Reconnecting..."]))
       ELSE appendEventEntry("system", Field("string", "Disconnected from channel event feed."),
                             Now, [cleared EXCEPT !.status = "Disconnected"])

\* The state when the page's script starts, for the variables of the queue
\* manager's channel, queue, preview and connections and of the queue overlay.
LoadInit ==
  /\ channelName = ""
  /\ eventFeedEl \in BOOLEAN
  /\ sources = [i \in 1..MaxSources |-> Free]
  /\ sockets = [i \in 1..MaxSockets |-> Free]
  /\ timers = {}
  /\ queueStream = NoObject
  /\ queueStreamTimer = NoObject
  /\ channelEventSocket = NoObject
  /\ channelEventTimer = NoObject
  /\ channelEventShouldReconnect = FALSE
  /\ eventStatus = ""
  /\ overlayStage = "load"
  /\ eventSource = NoObject
  /\ pendingFetch = NoObject
  /\ overlayFetches = [i \in 1..MaxOverlayFetches |-> "free"]
  /\ overlayMessage = ""
  /\ pollTimer = FALSE
  /\ documentHidden = FALSE
  /\ eventFeed = <<>>
  /\ delivered = <<>>
  /\ queueFetchActive = FALSE
  /\ queueFetchQueued = FALSE
  /\ queueFetches = <<>>
  /\ staleNotice = FALSE
  /\ fetchSerial = 0
  /\ reconciled = "none"
  /\ queueRows = <<>>
  /\ selectedRows = {}
  \* the module body ends with resetPreviewState() (line 668)
  /\ currentPreviewRequestId = NoRequest
  /\ currentPreviewSourceKey = NULL
  /\ currentPreviewVideoId = NULL
  /\ currentPreviewLink = ""
  /\ previewSearchToken = 1
  /\ previewSearches = <<>>
  /\ previewResults = "default"

\* The landing page when its script starts (app.js lines 32-33).
LandingLoadInit ==
  /\ landingStage = "check"
  /\ landingGrid \in BOOLEAN
  /\ landingLoading = FALSE
  /\ landingInterval = FALSE
  /\ landingLoads = <<>>

\* The event overlay before any event arrived.
EventsLoadInit ==
  /\ arrived = 0
  /\ popupQueue = <<>>
  /\ popupCards = <<>>
  /\ popupShown = <<>>
  /\ tickerBuffer = <<>>

\* The lookup keys of the caches: `${channel.toLowerCase()}:${id}`.
LookupChannels == {"c1", "C1"}
LookupIds == {1, 2}
toLowerCase(text) ==
  CASE text = "C1" -> "c1"
    [] text = "ERROR" -> "error"
    [] text = "Warning" -> "warning"
    [] OTHER -> text
CacheKey(channel, id) == <<toLowerCase(channel), id>>
CacheKeys == {CacheKey(channel, id) : channel \in LookupChannels, id \in LookupIds}

\* The admin or stats page when its script has run: empty caches, no console
\* stream, an empty console.
AdminLoadInit ==
  /\ botConsoleLog \in BOOLEAN
  /\ botConsoleSource = FALSE
  /\ consoleRows = <<>>
  /\ consoleAppended = 0
  /\ songCache = [k \in CacheKeys |-> NoObject]
  /\ userCache = [k \in CacheKeys |-> NoObject]
  /\ promises = <<>>
  /\ lookups = <<>>

\* The queue manager once bootstrap() has run to its end with more than one
\* channel to choose from (a state SetupSpec reaches), or the queue overlay
\* when its script starts.  The feed's entries are not recorded.
Init ==
  /\ page \in {"manager", "overlay"}
  /\ LoadInit
  /\ LandingLoadInit /\ landingGrid
  /\ EventsLoadInit
  /\ AdminLoadInit /\ botConsoleLog
  /\ bootStage = "ready"
  /\ setupGuard = ""
  /\ channelButtons = Channels
  /\ feedWindow = 0
  /\ searchWindow = 0

\* A queue mutation handler (moveReq, bumpReq, skipReq, markPlayed,
\* queuePlaylistItem) reaching its trailing fetchQueue() call.
QueueMutationDone ==
  /\ page = "manager"
  /\ SetSync(fetchQueue(channelName, SyncState))
  /\ UNCHANGED <<overlayVars, foreignVars, bootVars, feedVars, page, channelName, eventFeedEl, previewVars, rowVars, connVars>>

\* Faulty variant: a non-OK response is rendered as an empty queue (the rows
\* are cleared and resetPreviewState() runs) before the finally block.
QueueFetchRespondsRendering(i, ok, body) ==
  /\ page = "manager"
  /\ i \in 1..Len(queueFetches)
  /\ queueFetches[i].phase = "fetch"
  /\ IF ok
       THEN /\ SetSync([SyncState EXCEPT !.fetches[i].phase = "json", !.fetches[i].body = body])
            /\ UNCHANGED <<previewVars, rowVars>>
       ELSE LET p == resetPreviewState(PreviewState)
            IN /\ p.token <= MaxToken
               /\ SetSync(fetchQueueFinally(channelName,
                             [SyncState EXCEPT !.fetches = RemoveAt(@, i)]))
               /\ SetPreview(p)
               /\ queueRows' = <<>>
               /\ selectedRows' = {}
               /\ reconciled' = "not ok"
  /\ UNCHANGED <<overlayVars, foreignVars, bootVars, feedVars, page, channelName, eventFeedEl, connVars>>

\* `await fetch(...)` of invocation i settles with a response. A non-OK
\* response takes the early `return` at line 1146: nothing is rendered and the
\* finally block runs.
QueueFetchResponds(i, ok, body) ==
  /\ page = "manager"
  /\ i \in 1..Len(queueFetches)
  /\ queueFetches[i].phase = "fetch"
  /\ IF ok
       THEN /\ SetSync([SyncState EXCEPT !.fetches[i].phase = "json", !.fetches[i].body = body])
            /\ reconciled' = reconciled
       ELSE /\ SetSync(fetchQueueFinally(channelName,
                         [SyncState EXCEPT !.fetches = RemoveAt(@, i)]))
            /\ reconciled' = "not ok"
  /\ UNCHANGED <<overlayVars, foreignVars, bootVars, feedVars, page, channelName, eventFeedEl, previewVars, queueRows,
                 selectedRows, connVars>>

\* `await fetch(...)` of invocation i rejects (network error). fetchQueue has
\* try/finally and no catch, and no caller awaits or catches its promise: the
\* finally block runs and the promise of the invocation rejects unhandled.
QueueFetchRejects(i) ==
  /\ page = "manager"
  /\ i \in 1..Len(queueFetches)
  /\ queueFetches[i].phase = "fetch"
  /\ SetSync(fetchQueueFinally(channelName, [SyncState EXCEPT !.fetches = RemoveAt(@, i)]))
  /\ reconciled' = "rejected"
  /\ UNCHANGED <<overlayVars, foreignVars, bootVars, feedVars, page, channelName, eventFeedEl, previewVars, queueRows,
                 selectedRows, connVars>>

\* `await resp.json()` of invocation i settles: render, reconcile, finally.
\* A body that is not JSON makes resp.json() reject: finally, then the
\* promise of the invocation rejects unhandled.
QueueFetchRenders(i) ==
  /\ page = "manager"
  /\ i \in 1..Len(queueFetches)
  /\ queueFetches[i].phase = "json"
  /\ LET body == queueFetches[i].body
         done == fetchQueueFinally(channelName, [SyncState EXCEPT !.fetches = RemoveAt(@, i)])
     IN IF body.kind = "malformed"
          THEN /\ SetSync(done)
               /\ reconciled' = "rejected"
               /\ UNCHANGED <<previewVars, queueRows, selectedRows>>
          ELSE LET data == body.data
                   p == ReconcileSelection(data, PreviewState)
               IN /\ p.token <= MaxToken
                  /\ SetSync(done)
                  /\ SetPreview(p)
                  /\ queueRows' = data
                  /\ selectedRows' = highlightQueueSelection(data, p.requestId)
                  /\ reconciled' = ReconcileBranch(data, PreviewState)
  /\ UNCHANGED <<overlayVars, foreignVars, bootVars, feedVars, page, channelName, eventFeedEl, connVars>>

\* A click on a queue row (outside its buttons and links): lines 1237-1241.
RowClick(i) ==
  /\ page = "manager"
  /\ i \in 1..Len(queueRows)
  /\ LET p == selectQueueRequest(queueRows[i], TRUE, PreviewState)
     IN /\ p.token <= MaxToken
        /\ SetPreview(p)
        /\ selectedRows' = highlightQueueSelection(queueRows, p.requestId)
  /\ UNCHANGED <<overlayVars, foreignVars, bootVars, feedVars, page, channelName, eventFeedEl, syncVars, queueRows, reconciled,
                 connVars>>

\* The search of loadPreviewForRequest invocation i settles.
PreviewSearchSettles(i, outcome) ==
  /\ page = "manager"
  /\ i \in 1..Len(previewSearches)
  /\ SetPreview(searchSettles(previewSearches[i], outcome,
                              [PreviewState EXCEPT !.searches = RemoveAt(@, i)]))
  /\ UNCHANGED <<overlayVars, foreignVars, bootVars, feedVars, page, channelName, eventFeedEl,
                 syncVars, rowVars, connVars>>

\* Faulty variant of selectChannel: the channel is switched and the
\* connections are remade, but fetchQueue() is not called.
selectChannelNoRefresh(ch, streamThrows, socketThrows) ==
  /\ channelName' = ch
  /\ SetConn(connectChannelEvents(ch, eventFeedEl, socketThrows,
                connectQueueStream(ch, streamThrows, clearEventFeed(ConnState))))
  /\ delivered' = <<>>
  /\ UNCHANGED <<overlayVars, foreignVars, feedWindow, page, eventFeedEl, syncVars, previewVars, rowVars>>

\* selectChannel(ch): fetchQueue, connectQueueStream, connectChannelEvents.
\* (fetchPlaylists, fetchUsers, fetchSettings and the overlay builder touch
\* none of the modelled state.)  It is reached from initToken with a single
\* channel and from the click on a channel's button.
selectChannel(ch, streamThrows, socketThrows) ==
  /\ channelName' = ch
  /\ SetSync(fetchQueue(ch, SyncState))
  /\ SetConn(connectChannelEvents(ch, eventFeedEl, socketThrows,
                connectQueueStream(ch, streamThrows, clearEventFeed(ConnState))))
  /\ delivered' = <<>>
  /\ UNCHANGED <<overlayVars, foreignVars, feedWindow, page, eventFeedEl, previewVars, rowVars>>

\* A click on a channel's button (line 2325).
SelectChannel(ch, streamThrows, socketThrows) ==
  /\ page = "manager"
  /\ bootStage = "ready"
  /\ ch \in channelButtons
  /\ selectChannel(ch, streamThrows, socketThrows)
  /\ UNCHANGED bootVars

\* ------------------------------------------------ queue manager bootstrap
\* What #setup-guard shows.
GuardIncomplete == "Deployment setup is incomplete."
GuardUnreachable == "Unable to reach the backend API."
GuardNoConfig == "Unable to load deployment configuration."

SetupOutcomes == {"complete", "incomplete", "unreachable"}

\* The manager's page as far as bootstrap() is concerned.
ManagerIdle ==
  UNCHANGED <<overlayVars, foreignVars, feedVars, page, channelName, eventFeedEl, syncVars,
              previewVars, rowVars, connVars>>

\* `await ensureSetupComplete()` in bootstrap() settles (lines 42-60 and
\* 2342-2347): on a failure the guard is shown and bootstrap returns.
BootSetupSettles(outcome) ==
  /\ page = "manager"
  /\ bootStage = "setup"
  /\ setupGuard' = CASE outcome = "complete" -> ""
                      [] outcome = "incomplete" -> GuardIncomplete
                      [] OTHER -> GuardUnreachable
  /\ bootStage' = IF outcome = "complete" THEN "config" ELSE "blocked"
  /\ UNCHANGED channelButtons
  /\ ManagerIdle

\* `await loadSystemConfig()` settles (lines 2349-2356).
BootConfigSettles(ok) ==
  /\ page = "manager"
  /\ bootStage = "config"
  /\ setupGuard' = IF ok THEN "" ELSE GuardNoConfig
  /\ bootStage' = IF ok THEN "token" ELSE "blocked"
  /\ UNCHANGED channelButtons
  /\ ManagerIdle

\* initToken() gets the answer of /me/channels (lines 2315-2338): one channel
\* is selected at once, several get a button each, a failure is ignored.
BootTokenSettles(ok, list, streamThrows, socketThrows) ==
  /\ page = "manager"
  /\ bootStage = "token"
  /\ bootStage' = "ready"
  /\ UNCHANGED setupGuard
  /\ IF ok /\ Cardinality(list) = 1
       THEN /\ \E ch \in list : selectChannel(ch, streamThrows, socketThrows)
            /\ UNCHANGED channelButtons
       ELSE /\ channelButtons' = IF ok THEN list ELSE {}
            /\ ManagerIdle

BootNext ==
  \/ \E outcome \in SetupOutcomes : BootSetupSettles(outcome)
  \/ \E ok \in BOOLEAN : BootConfigSettles(ok)
  \/ \E ok, st, so \in BOOLEAN, list \in SUBSET Channels : BootTokenSettles(ok, list, st, so)

\* ------------------------------------------------- public landing page
LandingState == [loading |-> landingLoading, loads |-> landingLoads]

SetLanding(l) ==
  /\ landingLoading' = l.loading
  /\ landingLoads' = l.loads

\* Faulty variant of loadLandingChannels: the return for a missing grid
\* leaves the flag set.
loadLandingChannelsStuck(l) ==
  IF l.loading THEN l
  ELSE IF ~landingGrid THEN [l EXCEPT !.loading = TRUE]
  ELSE [loading |-> TRUE, loads |-> Append(l.loads, "channels")]

\* loadLandingChannels(manual), up to its first await (app.js lines 246-269):
\* the requests for /channels and /channels/live_status are under way.
loadLandingChannels(l) ==
  IF l.loading THEN l
  ELSE IF ~landingGrid THEN [l EXCEPT !.loading = FALSE]
  ELSE [loading |-> TRUE, loads |-> Append(l.loads, "channels")]

\* ensureSetupComplete() of initLandingMode settles (app.js lines 127-149 and
\* 748-756).
LandingSetupSettles(outcome) ==
  /\ page = "landing"
  /\ landingStage = "check"
  /\ landingStage' = IF outcome = "complete" THEN "ready" ELSE "blocked"
  /\ setupGuard' = CASE outcome = "complete" -> ""
                      [] outcome = "incomplete" -> GuardIncomplete
                      [] OTHER -> GuardUnreachable
  /\ IF outcome = "complete"
       THEN /\ SetLanding(loadLandingChannels(LandingState))
            /\ landingInterval' = TRUE
       ELSE UNCHANGED <<landingLoading, landingLoads, landingInterval>>
  /\ UNCHANGED <<page, channelName, eventFeedEl, syncVars, previewVars, rowVars, connVars,
                 bootStage, channelButtons, feedVars, overlayVars, eventsVars, adminVars, landingGrid>>

\* visibilitychange to visible (app.js lines 852-856): the listener is added
\* when the script loads and asks for the landing mode only.
LandingVisible ==
  /\ page = "landing"
  /\ SetLanding(loadLandingChannels(LandingState))
  /\ UNCHANGED <<landingStage, landingInterval, setupGuard, bootStage, channelButtons>>
  /\ UNCHANGED <<page, channelName, eventFeedEl, syncVars, previewVars, rowVars, connVars,
                 feedVars, overlayVars, eventsVars, adminVars, landingGrid>>

\* A click on #refresh-channels (app.js lines 743-746): the listener is added
\* before the setup check starts.
LandingRefreshClick ==
  /\ page = "landing"
  /\ SetLanding(loadLandingChannels(LandingState))
  /\ UNCHANGED <<landingStage, landingInterval, setupGuard, bootStage, channelButtons>>
  /\ UNCHANGED <<page, channelName, eventFeedEl, syncVars, previewVars, rowVars, connVars,
                 feedVars, overlayVars, eventsVars, adminVars, landingGrid>>

\* The 30 s interval of line 752 ticks.
LandingIntervalFires ==
  /\ page = "landing"
  /\ landingInterval
  /\ SetLanding(loadLandingChannels(LandingState))
  /\ UNCHANGED <<landingStage, landingInterval, setupGuard, bootStage, channelButtons>>
  /\ UNCHANGED <<page, channelName, eventFeedEl, syncVars, previewVars, rowVars, connVars,
                 feedVars, overlayVars, eventsVars, adminVars, landingGrid>>

\* An await of loadLandingChannels invocation i settles: the channel list
\* is empty (early return), has channels (their queues are requested), or
\* the request failed; the queues' requests settle.  The finally block
\* clears landingLoading.
LandingLoadSettles(i, outcome) ==
  /\ page = "landing"
  /\ i \in 1..Len(landingLoads)
  /\ IF landingLoads[i] = "channels" /\ outcome = "list"
       THEN /\ landingLoads' = [landingLoads EXCEPT ![i] = "queues"]
            /\ UNCHANGED landingLoading
       ELSE /\ landingLoads' = RemoveAt(landingLoads, i)
            /\ landingLoading' = FALSE
  /\ UNCHANGED <<landingStage, landingInterval, setupGuard, bootStage, channelButtons>>
  /\ UNCHANGED <<page, channelName, eventFeedEl, syncVars, previewVars, rowVars, connVars,
                 feedVars, overlayVars, eventsVars, adminVars, landingGrid>>

LandingNext ==
  \/ \E outcome \in SetupOutcomes : LandingSetupSettles(outcome)
  \/ LandingVisible
  \/ LandingRefreshClick
  \/ LandingIntervalFires
  \/ \E i \in 1..Len(landingLoads), outcome \in {"empty", "list", "error"} :
        LandingLoadSettles(i, outcome)

\* The finally block of the logout handlers (lines 295-302 and 317-324), up
\* to location.reload(): the page keeps running tasks until the reload commits.
Logout ==
  /\ page = "manager"
  /\ channelName' = ""
  /\ SetConn(teardownChannelEvents(teardownQueueStream(ConnState)))
  /\ UNCHANGED <<overlayVars, foreignVars, bootVars, feedVars, page, eventFeedEl, syncVars, previewVars, rowVars>>

\* A timeout fires: the variable that holds its id keeps the fired id.
FireTimer(t) ==
  /\ page = "manager"
  /\ t \in timers
  /\ LET fired == [ConnState EXCEPT
                     !.timers = @ \ {t},
                     !.streamTimer = IF @ = t.id THEN FiredTimer ELSE @,
                     !.socketTimer = IF @ = t.id THEN FiredTimer ELSE @]
     IN \E throws \in BOOLEAN :
          \/ /\ t.callback = "connectQueueStream"
             /\ SetConn(connectQueueStream(channelName, throws, fired))
          \/ /\ t.callback = "connectChannelEvents"
             /\ SetConn(connectChannelEvents(channelName, eventFeedEl, throws, fired))
  /\ UNCHANGED <<overlayVars, foreignVars, bootVars, feedVars, page, channelName, eventFeedEl, syncVars, previewVars, rowVars>>

\* Faulty variant: the stream connects and onopen refreshes nothing.
QueueStreamOpensSilent(i) ==
  /\ page = "manager"
  /\ sources[i].state = "connecting"
  /\ sources' = [sources EXCEPT ![i].state = "open"]
  /\ UNCHANGED <<overlayVars, foreignVars, bootVars, feedVars, page, channelName, eventFeedEl, previewVars, rowVars, sockets, timers,
                 queueStream, queueStreamTimer, channelEventSocket, channelEventTimer,
                 channelEventShouldReconnect, eventStatus, eventFeed, syncVars>>

\* The queue stream connects: `open` is dispatched to a live EventSource.
QueueStreamOpens(i) ==
  /\ page = "manager"
  /\ sources[i].state = "connecting"
  /\ sources' = [sources EXCEPT ![i].state = "open"]
  /\ IF sources[i].attached
       THEN SetSync(fetchQueue(channelName, SyncState))
       ELSE UNCHANGED syncVars
  /\ UNCHANGED <<overlayVars, foreignVars, bootVars, feedVars, page, channelName, eventFeedEl, previewVars, rowVars, sockets, timers,
                 queueStream, queueStreamTimer, channelEventSocket, channelEventTimer,
                 channelEventShouldReconnect, eventStatus, eventFeed>>

\* The server pushes the bare `queue` event on an open stream.
QueueStreamNotifies(i) ==
  /\ page = "manager"
  /\ sources[i].state = "open"
  /\ IF sources[i].attached
       THEN SetSync(fetchQueue(channelName, [SyncState EXCEPT !.stale = TRUE]))
       ELSE UNCHANGED syncVars
  /\ UNCHANGED <<overlayVars, foreignVars, bootVars, feedVars, page, channelName, eventFeedEl, previewVars, rowVars, connVars>>

\* The stream fails: the browser leaves the object reconnecting, or closed
\* when `fatal`, and dispatches `error`.
QueueStreamErrors(i, fatal) ==
  /\ page = "manager"
  /\ Live(sources[i])
  /\ LET failed == [ConnState EXCEPT
                      !.sources[i].state = IF fatal THEN "closed" ELSE "connecting"]
     IN IF sources[i].attached
          THEN SetConn(queueStreamOnError(failed))
          ELSE SetConn(failed)
  /\ UNCHANGED <<overlayVars, foreignVars, bootVars, feedVars, page, channelName, eventFeedEl, syncVars, previewVars, rowVars>>

\* The event socket connects: `open` is dispatched.
ChannelSocketOpens(i) ==
  /\ page = "manager"
  /\ sockets[i].state = "connecting"
  /\ LET opened == [ConnState EXCEPT !.sockets[i].state = "open"]
     IN IF sockets[i].attached
          THEN SetConn(channelEventOnOpen(opened))
          ELSE SetConn(opened)
  /\ UNCHANGED <<overlayVars, foreignVars, bootVars, feedVars, page, channelName, eventFeedEl, syncVars, previewVars, rowVars>>

\* The open event socket delivers a message (onmessage, lines 2255-2257).
ChannelSocketMessage(i, data) ==
  /\ page = "manager"
  /\ sockets[i].state = "open"
  /\ sockets[i].attached
  /\ SetConn(handleEventMessage(data, ConnState))
  /\ delivered' = Append(delivered, data)
  /\ UNCHANGED <<overlayVars, foreignVars, bootVars, feedWindow, page, channelName, eventFeedEl,
                 syncVars, previewVars, rowVars>>

\* A click on the feed's clear button (lines 272-276).
ClearFeedClick ==
  /\ page = "manager"
  /\ SetConn(clearEventFeed(ConnState))
  /\ delivered' = <<>>
  /\ UNCHANGED <<overlayVars, foreignVars, bootVars, feedWindow, page, channelName, eventFeedEl,
                 syncVars, previewVars, rowVars>>

\* The connection of a live socket ends: on failure the browser dispatches
\* `error` and then `close` in one task, otherwise `close` alone.
ChannelSocketCloses(i, failure) ==
  /\ page = "manager"
  /\ Live(sockets[i])
  /\ LET gone == [ConnState EXCEPT !.sockets[i] = Free]
         afterError == IF failure THEN channelEventOnError(gone) ELSE gone
     IN IF sockets[i].attached
          THEN SetConn(channelEventOnClose(afterError))
          ELSE SetConn(gone)
  /\ UNCHANGED <<overlayVars, foreignVars, bootVars, feedVars, page, channelName, eventFeedEl, syncVars, previewVars, rowVars>>

\* The close event of a socket the page closed itself arrives.
ChannelSocketLateClose(i) ==
  /\ page = "manager"
  /\ sockets[i].state = "closing"
  /\ LET gone == [ConnState EXCEPT !.sockets[i] = Free]
     IN IF sockets[i].attached
          THEN SetConn(channelEventOnClose(gone))
          ELSE SetConn(gone)
  /\ UNCHANGED <<overlayVars, foreignVars, bootVars, feedVars, page, channelName, eventFeedEl, syncVars, previewVars, rowVars>>

ManagerConnection(channels) ==
  \/ \E ch \in channels, st, so \in BOOLEAN : SelectChannel(ch, st, so)
  \/ Logout
  \/ \E t \in timers : FireTimer(t)
  \/ \E i \in 1..MaxSources : QueueStreamOpens(i)
  \/ \E i \in 1..MaxSources : QueueStreamNotifies(i)
  \/ \E i \in 1..MaxSources, fatal \in BOOLEAN : QueueStreamErrors(i, fatal)
  \/ \E i \in 1..MaxSockets : ChannelSocketOpens(i)
  \/ \E i \in 1..MaxSockets, failure \in BOOLEAN : ChannelSocketCloses(i, failure)
  \/ \E i \in 1..MaxSockets : ChannelSocketLateClose(i)

ManagerConnectionNext == ManagerConnection(Channels)

ManagerFetchNext(bodies) ==
  \/ QueueMutationDone
  \/ \E i \in 1..Len(queueFetches), ok \in BOOLEAN, body \in bodies :
        QueueFetchResponds(i, ok, body)
  \/ \E i \in 1..Len(queueFetches) : QueueFetchRejects(i)
  \/ \E i \in 1..Len(queueFetches) : QueueFetchRenders(i)
  \/ \E i \in 1..Len(queueRows) : RowClick(i)

\* ---------------------------------------------------------- queue overlay
OverlayState ==
  [sources |-> sources, timers |-> timers, eventSource |-> eventSource,
   pendingFetch |-> pendingFetch, fetches |-> overlayFetches, full |-> FALSE]

SetOverlay(o) ==
  /\ ~o.full
  /\ sources' = o.sources
  /\ timers' = o.timers
  /\ eventSource' = o.eventSource
  /\ pendingFetch' = o.pendingFetch
  /\ overlayFetches' = o.fetches

NewFetchId(fetches) ==
  LET free == {i \in 1..MaxOverlayFetches : fetches[i] = "free"}
  IN IF free = {} THEN NoObject ELSE Min(free)

\* refreshQueue(), up to its first await (overlay.js lines 108-116).
refreshQueue(o) ==
  LET aborted == IF o.pendingFetch # NoObject
                   THEN [o EXCEPT !.fetches[o.pendingFetch] =
                                     IF @ = "running" THEN "aborted" ELSE @]
                   ELSE o
      id == NewFetchId(aborted.fetches)
  IN IF id = NoObject THEN [aborted EXCEPT !.full = TRUE]
     ELSE [aborted EXCEPT !.pendingFetch = id, !.fetches[id] = "running"]

\* setupStream(); `throws` is whether `new EventSource(streamUrl)` throws:
\* the catch block only logs.
setupStream(throws, o) ==
  LET id == NewSourceId(o.sources)
  IN IF throws THEN o
     ELSE IF id = NoObject THEN [o EXCEPT !.full = TRUE]
     ELSE [o EXCEPT !.eventSource = id,
                    !.sources[id] = [state |-> "connecting", attached |-> TRUE]]

\* eventSource.onerror (overlay.js lines 318-324)
overlayStreamOnError(o) ==
  LET closed == IF o.eventSource # NoObject
                  THEN [o EXCEPT !.sources[o.eventSource].state = "closed"]
                  ELSE o
      refreshed == refreshQueue(closed)
      id == NewTimerId(refreshed.timers)
  IN IF id = NoObject THEN [refreshed EXCEPT !.full = TRUE]
     ELSE [refreshed EXCEPT !.timers = @ \cup {[id |-> id, callback |-> "setupStream",
                                                delay |-> RECONNECT_DELAY]}]

\* Faulty variant of the overlay's top-level script: the message is shown
\* for a missing channel, but init() runs all the same.
OverlayInitNoReturn(hasChannel, throws) ==
  /\ page = "overlay"
  /\ overlayStage = "load"
  /\ overlayStage' = IF hasChannel THEN "running" ELSE "fatal"
  /\ overlayMessage' = IF hasChannel THEN overlayMessage ELSE "Missing channel name"
  /\ SetOverlay(setupStream(throws, refreshQueue(OverlayState)))
  /\ pollTimer' = TRUE
  /\ UNCHANGED <<page, foreignVars, managerVars, documentHidden>>

\* The top-level script of the overlay (lines 52-78): the missing-channel
\* guard, then init(): refreshQueue, setupStream, startPolling; init() also
\* registers the visibilitychange and focus listeners.
OverlayInit(hasChannel, throws) ==
  /\ page = "overlay"
  /\ overlayStage = "load"
  /\ IF hasChannel
       THEN /\ overlayStage' = "running"
            /\ SetOverlay(setupStream(throws, refreshQueue(OverlayState)))
            /\ pollTimer' = TRUE
            /\ UNCHANGED overlayMessage
       ELSE /\ overlayStage' = "fatal"
            /\ overlayMessage' = "Missing channel name"
            /\ UNCHANGED <<sources, timers, eventSource, pendingFetch, overlayFetches,
                           pollTimer>>
  /\ UNCHANGED <<page, foreignVars, managerVars, documentHidden>>

\* refreshQueue invocation i settles.  An aborted invocation rejects with
\* AbortError; a running one renders the queue, the empty message or the
\* failure message.  The finally block clears pendingFetch.
OverlayFetchSettles(i, outcome) ==
  /\ page = "overlay"
  /\ overlayFetches[i] # "free"
  /\ overlayFetches' = [overlayFetches EXCEPT ![i] = "free"]
  /\ pendingFetch' = NoObject
  /\ IF overlayFetches[i] = "aborted"
       THEN UNCHANGED overlayMessage
       ELSE overlayMessage' = outcome
  /\ UNCHANGED <<page, foreignVars, managerVars, pollTimer, overlayStage, sources, timers, eventSource,
                 documentHidden>>

\* The 45 s polling interval ticks (lines 334-338).
OverlayPollTick ==
  /\ page = "overlay"
  /\ pollTimer
  /\ IF documentHidden
       THEN UNCHANGED <<sources, timers, eventSource, pendingFetch, overlayFetches>>
       ELSE SetOverlay(refreshQueue(OverlayState))
  /\ UNCHANGED <<page, foreignVars, managerVars, pollTimer, overlayStage, overlayMessage,
                 documentHidden>>

\* The window gets focus (the listener of line 77).
OverlayRefreshTrigger ==
  /\ page = "overlay"
  /\ overlayStage = "running"
  /\ ~documentHidden
  /\ SetOverlay(refreshQueue(OverlayState))
  /\ UNCHANGED <<page, foreignVars, managerVars, pollTimer, overlayStage, overlayMessage, documentHidden>>

\* visibilitychange: refreshQueue when the page became visible.
OverlayVisibilityChange ==
  /\ page = "overlay"
  /\ overlayStage = "running"
  /\ documentHidden' = ~documentHidden
  /\ IF documentHidden
       THEN SetOverlay(refreshQueue(OverlayState))
       ELSE UNCHANGED <<sources, timers, eventSource, pendingFetch, overlayFetches>>
  /\ UNCHANGED <<page, foreignVars, managerVars, pollTimer, overlayStage, overlayMessage>>

\* The overlay's stream connects (onopen) or delivers `queue`: refreshQueue.
OverlayStreamOpens(i) ==
  /\ page = "overlay"
  /\ sources[i].state = "connecting"
  /\ LET opened == [OverlayState EXCEPT !.sources[i].state = "open"]
     IN SetOverlay(refreshQueue(opened))
  /\ UNCHANGED <<page, foreignVars, managerVars, pollTimer, overlayStage, overlayMessage, documentHidden>>

OverlayStreamNotifies(i) ==
  /\ page = "overlay"
  /\ sources[i].state = "open"
  /\ SetOverlay(refreshQueue(OverlayState))
  /\ UNCHANGED <<page, foreignVars, managerVars, pollTimer, overlayStage, overlayMessage, documentHidden>>

\* The overlay's stream fails and `error` is dispatched.
OverlayStreamErrors(i, fatal) ==
  /\ page = "overlay"
  /\ Live(sources[i])
  /\ LET failed == [OverlayState EXCEPT
                      !.sources[i].state = IF fatal THEN "closed" ELSE "connecting"]
     IN SetOverlay(overlayStreamOnError(failed))
  /\ UNCHANGED <<page, foreignVars, managerVars, pollTimer, overlayStage, overlayMessage, documentHidden>>

\* setTimeout(setupStream, 5000) fires.
OverlayTimerFires(t, throws) ==
  /\ page = "overlay"
  /\ t \in timers
  /\ t.callback = "setupStream"
  /\ SetOverlay(setupStream(throws, [OverlayState EXCEPT !.timers = @ \ {t}]))
  /\ UNCHANGED <<page, foreignVars, managerVars, pollTimer, overlayStage, overlayMessage, documentHidden>>

OverlayOutcomes == {"queue", "The queue is currently empty.", "Unable to load queue data."}

OverlayNext ==
  \/ \E hasChannel, throws \in BOOLEAN : OverlayInit(hasChannel, throws)
  \/ \E i \in 1..MaxOverlayFetches, outcome \in OverlayOutcomes : OverlayFetchSettles(i, outcome)
  \/ OverlayRefreshTrigger
  \/ OverlayPollTick
  \/ OverlayVisibilityChange
  \/ \E i \in 1..MaxSources : OverlayStreamOpens(i)
  \/ \E i \in 1..MaxSources : OverlayStreamNotifies(i)
  \/ \E i \in 1..MaxSources, fatal \in BOOLEAN : OverlayStreamErrors(i, fatal)
  \/ \E t \in timers, throws \in BOOLEAN : OverlayTimerFires(t, throws)

Next ==
  \/ ManagerConnection({"c1"})
  \/ ManagerFetchNext(ConnectionBodies)
  \/ OverlayNext

Spec == Init /\ [][Next]_vars

\* ------------------------------------------- selection specification
\* The queue manager on one channel with every queue of at most MaxQueueLen
\* entries as a possible response; the streams stay connecting.
SelectionInit ==
  Init /\ page = "manager" /\ eventFeedEl

SelectionNext ==
  \/ SelectChannel("c1", FALSE, FALSE)
  \/ ManagerFetchNext(SelectionBodies)

SelectionSpec == SelectionInit /\ [][SelectionNext]_vars

\* -------------------------------------------- liveness specification
\* The queue manager with responses that leave the selection alone: every
\* outstanding queue request eventually settles (fetch resolves or rejects,
\* resp.json() resolves or rejects).
LiveBodies == {ArrayBody(<<QueueEntry(1, SongVideo)>>), MalformedBody}

QueueFetchSettles ==
  \/ \E i \in 1..Len(queueFetches), ok \in BOOLEAN, body \in LiveBodies :
        QueueFetchResponds(i, ok, body)
  \/ \E i \in 1..Len(queueFetches) : QueueFetchRejects(i)
  \/ \E i \in 1..Len(queueFetches) : QueueFetchRenders(i)

FairInit ==
  Init /\ page = "manager" /\ eventFeedEl

FairNext ==
  \/ ManagerConnectionNext
  \/ QueueMutationDone
  \/ QueueFetchSettles

FairSpec == FairInit /\ [][FairNext]_vars /\ WF_vars(QueueFetchSettles)

\* ------------------------------------------------------------ properties
LiveSources == {i \in 1..MaxSources : Live(sources[i])}
LiveSockets == {i \in 1..MaxSockets : Live(sockets[i])}

\* The step completes the queue refresh that is in flight.
InFlightFinishes ==
  /\ Len(queueFetches) = 1
  /\ \A j \in 1..Len(queueFetches') : queueFetches'[j].serial # queueFetches[1].serial

\* The step issues exactly one queue request, which is the only one in flight.
OneRequestIssued ==
  /\ fetchSerial' # fetchSerial
  /\ Len(queueFetches') = 1
  /\ queueFetches'[1].phase = "fetch"
  /\ queueFetchActive'

NoRequestIssued ==
  /\ fetchSerial' = fetchSerial
  /\ queueFetches' = <<>>
  /\ ~queueFetchActive'

\* C1: at most one queue fetch is outstanding at any instant; the in-flight
\* flag is set exactly while one is outstanding, and the queued flag is only
\* ever set while a refresh is in flight.
C1_AtMostOneFetch ==
  /\ Len(queueFetches) <= 1
  /\ queueFetchActive <=> Len(queueFetches) = 1
  /\ queueFetchQueued => queueFetchActive

\* A refresh is in flight and a further fetchQueue() call has been coalesced.
C1_Witness ==
  /\ queueFetchActive
  /\ queueFetchQueued
  /\ Len(queueFetches) = 1

\* C2 as stated: when the in-flight refresh completes, exactly one trailing
\* request is issued if calls were queued meanwhile (and none otherwise).
C2_ExactlyOneTrailing ==
  [][InFlightFinishes =>
       IF queueFetchQueued
         THEN OneRequestIssued /\ ~queueFetchQueued'
         ELSE NoRequestIssued /\ ~queueFetchQueued']_vars

\* C2 amended: the single trailing fetchQueue() call issues its request when a
\* channel is still selected; after a logout cleared channelName it returns
\* without fetching.
C2_OneTrailingWhileSelected ==
  [][InFlightFinishes =>
       IF queueFetchQueued /\ channelName # ""
         THEN OneRequestIssued /\ ~queueFetchQueued'
         ELSE NoRequestIssued /\ ~queueFetchQueued']_vars

\* K = 2 calls were coalesced behind a refresh, and the request now in
\* flight is the one the finally block of that refresh issued.
C2_Witness ==
  /\ channelName # ""
  /\ queueFetchActive
  /\ ~queueFetchQueued
  /\ Len(queueFetches) = 1
  /\ queueFetches[1].trailing
  /\ queueFetches[1].phase = "fetch"

\* C3 as stated: after a `queue` notification a queue request issued after
\* it eventually exists.
C3_NoticeLeadsToFetch ==
  staleNotice ~> ~staleNotice

\* C3 amended: ... unless the channel is deselected (logout) meanwhile.
C3_NoticeLeadsToFetchWhileSelected ==
  staleNotice ~> (~staleNotice \/ channelName = "")

\* A notification arrived while a refresh was in flight and was coalesced.
C3_Witness ==
  /\ staleNotice
  /\ queueFetchActive
  /\ queueFetchQueued
  /\ channelName # ""

\* C4: at most one EventSource and at most one WebSocket is live, and a live
\* one is the object the page's variable refers to.
C4_OneLiveTransport ==
  /\ Cardinality(LiveSources) <= 1
  /\ Cardinality(LiveSockets) <= 1
  /\ \A i \in LiveSources : i = IF page = "manager" THEN queueStream ELSE eventSource
  /\ \A i \in LiveSockets : i = channelEventSocket

\* connectChannelEvents ran while a socket was active: the old socket has been
\* closed by the page and the new one is live.
C4_Witness ==
  \E i, j \in 1..MaxSockets : sockets[i].state = "closing" /\ Live(sockets[j])

\* C5 as stated: a transport the page has closed carries no callbacks.
C5_ClosedTransportsDetached ==
  page = "manager" =>
    /\ \A i \in 1..MaxSockets : sockets[i].state = "closing" => ~sockets[i].attached
    /\ \A i \in 1..MaxSources : sources[i].state = "closed" => ~sources[i].attached

\* C6 as stated, its safety half: while a channel that was opened has no
\* transport, a retry is armed with the 5 s delay.
RetryArmed(callback) ==
  \E t \in timers : t.callback = callback /\ t.delay = RECONNECT_DELAY

C6_ManagerRetryArmed ==
  page = "manager" =>
    /\ (channelName # "" /\ queueStream = NoObject) => RetryArmed("connectQueueStream")
    /\ (channelEventShouldReconnect /\ channelEventSocket = NoObject)
          => RetryArmed("connectChannelEvents")

C6_RetryArmedWhenDown ==
  /\ C6_ManagerRetryArmed
  /\ (page = "overlay" /\ overlayStage = "running" /\ LiveSources = {})
        => RetryArmed("setupStream")

\* The step is the continuation of a refresh whose response body parsed.
RefreshRenders ==
  /\ Len(queueFetches) = 1
  /\ queueFetches[1].phase = "json"
  /\ queueFetches[1].body.kind # "malformed"
  /\ queueFetches' # queueFetches

ResponseData == queueFetches[1].body.data

EntriesOf(rows, id) == {rows[i] : i \in {j \in 1..Len(rows) : rows[j].id = id}}

\* C7: the selected id is in the rows before and in the response with the
\* same source key: the selection and the preview are untouched and the row
\* is highlighted again.
C7_SameFingerprintKeeps ==
  [][(/\ RefreshRenders
      /\ currentPreviewRequestId # NoRequest
      /\ \E before \in EntriesOf(queueRows, currentPreviewRequestId),
            after \in EntriesOf(ResponseData, currentPreviewRequestId) :
              buildPreviewSourceKey(before.song) = buildPreviewSourceKey(after.song))
     => /\ currentPreviewRequestId' = currentPreviewRequestId
        /\ currentPreviewSourceKey' = currentPreviewSourceKey
        /\ previewSearchToken' = previewSearchToken
        /\ currentPreviewLink' = currentPreviewLink
        /\ currentPreviewVideoId' = currentPreviewVideoId
        /\ selectedRows' = {currentPreviewRequestId}]_vars

\* A refresh kept the selection on a row whose song object changed (a null
\* link became '') while its source key did not.
C7_Witness ==
  /\ reconciled = "same"
  /\ currentPreviewRequestId # NoRequest
  /\ \E e \in EntriesOf(queueRows, currentPreviewRequestId) :
        /\ e.song = SongEmptyLink
        /\ currentPreviewSourceKey = buildPreviewSourceKey(SongNullLink)
  /\ selectedRows = {currentPreviewRequestId}

\* C8: the selected id is absent from the response: the selection is empty
\* afterwards.
C8_AbsentClears ==
  [][(/\ RefreshRenders
      /\ currentPreviewRequestId # NoRequest
      /\ EntriesOf(ResponseData, currentPreviewRequestId) = {})
     => /\ currentPreviewRequestId' = NoRequest
        /\ currentPreviewSourceKey' = NULL]_vars

\* A refresh that returned other requests only has cleared the selection.
C8_Witness ==
  /\ reconciled = "absent"
  /\ queueRows # <<>>
  /\ currentPreviewRequestId = NoRequest
  /\ currentPreviewSourceKey = NULL
  /\ selectedRows = {}

\* C9: the selected id is in the response with another source key: the
\* selection stays on the id, the stored key is the new one and the preview
\* is loaded again for the new song.
C9_ChangedReloads ==
  [][(/\ RefreshRenders
      /\ currentPreviewRequestId # NoRequest
      /\ \E after \in EntriesOf(ResponseData, currentPreviewRequestId) :
            buildPreviewSourceKey(after.song) # currentPreviewSourceKey)
     => /\ currentPreviewRequestId' = currentPreviewRequestId
        /\ \E after \in EntriesOf(ResponseData, currentPreviewRequestId) :
              /\ currentPreviewSourceKey' = buildPreviewSourceKey(after.song)
              /\ currentPreviewLink' = OrEmpty(after.song.youtube_link)
              /\ currentPreviewVideoId' = ytId(after.song.youtube_link)
        /\ currentPreviewSourceKey' # currentPreviewSourceKey
        /\ previewSearchToken' = previewSearchToken + 1
        /\ selectedRows' = {currentPreviewRequestId}]_vars

\* A refresh found the selected request with a new link and loaded its video.
C9_Witness ==
  /\ reconciled = "changed"
  /\ currentPreviewRequestId # NoRequest
  /\ currentPreviewSourceKey = buildPreviewSourceKey(SongVideo)
  /\ currentPreviewLink = YouTubeLink
  /\ currentPreviewVideoId = ytId(YouTubeLink)

\* C10: while the queue manager has no channel open (before the first
\* selectChannel, and from a logout's teardown until selectChannel is called
\* again) no reconnect timer is armed, no transport is live or referenced,
\* and the feed is not asked to reconnect.
C10_ClosedStaysClosed ==
  (page = "manager" /\ channelName = "") =>
    /\ timers = {}
    /\ queueStreamTimer = NoObject
    /\ channelEventTimer = NoObject
    /\ queueStream = NoObject
    /\ channelEventSocket = NoObject
    /\ ~channelEventShouldReconnect
    /\ LiveSources = {}
    /\ LiveSockets = {}
    /\ eventStatus \in {"", "Disconnected"}

\* A logout tore both channels down: the stream object is closed and the
\* socket's close event is still to come.
C10_Witness ==
  /\ page = "manager"
  /\ channelName = ""
  /\ eventStatus = "Disconnected"
  /\ \E i \in 1..MaxSockets : sockets[i].state = "closing"
  /\ \E i \in 1..MaxSources : sources[i].state = "closed"

\* ------------------------------------------- reconnect specification
\* The queue manager where an armed timeout eventually fires (the page stays
\* alive): each of the two reconnect callbacks is run once its timeout is due.
TimerFires(callback) ==
  \E t \in timers : t.callback = callback /\ FireTimer(t)

ReconnectSpec ==
  /\ FairInit
  /\ [][ManagerConnectionNext]_vars
  /\ WF_vars(TimerFires("connectChannelEvents"))
  /\ WF_vars(TimerFires("connectQueueStream"))

ReconnectTimers(callback) == {t \in timers : t.callback = callback}

\* The step is the close of the open event socket the page is using.
OpenSocketDrops ==
  /\ channelEventSocket # NoObject
  /\ sockets[channelEventSocket].state = "open"
  /\ sockets[channelEventSocket].attached
  /\ sockets'[channelEventSocket] = Free

\* The step ends the wait for the event socket's retry.
ReconnectWaitEnds ==
  /\ eventStatus = "Reconnecting..."
  /\ ReconnectTimers("connectChannelEvents") # {}
  /\ ReconnectTimers("connectChannelEvents")' = {}

\* One connection attempt was made: one connecting socket exists and is
\* the page's socket.
OneSocketAttempt ==
  /\ eventStatus' = "Connecting..."
  /\ channelEventSocket' # NoObject
  /\ LiveSockets' = {channelEventSocket'}
  /\ sockets'[channelEventSocket'].state = "connecting"

\* C11: when the open event socket drops while the status reads Connected,
\* the status becomes Reconnecting... with no socket and exactly one 5 s
\* retry timeout armed; the wait ends with exactly one new socket (or with a
\* teardown by logout), and it does end without any user action.
C11_DropReconnectsOnce ==
  /\ [][OpenSocketDrops =>
          /\ eventStatus = "Connected"
          /\ eventStatus' = "Reconnecting..."
          /\ channelEventSocket' = NoObject
          /\ LiveSockets' = {}
          /\ Cardinality(ReconnectTimers("connectChannelEvents")') = 1
          /\ \A t \in ReconnectTimers("connectChannelEvents")' :
                t.delay = RECONNECT_DELAY /\ t.id = channelEventTimer']_vars
  /\ [][ReconnectWaitEnds =>
          \/ OneSocketAttempt
          \/ eventStatus' = "Disconnected" /\ channelName' = "" /\ LiveSockets' = {}]_vars
  /\ (eventStatus = "Reconnecting...") ~> (eventStatus # "Reconnecting...")

\* The open event socket has dropped: the page waits for its one retry.
C11_Witness ==
  /\ eventStatus = "Reconnecting..."
  /\ channelEventSocket = NoObject
  /\ LiveSockets = {}
  /\ channelEventShouldReconnect
  /\ \E t \in timers : t.callback = "connectChannelEvents" /\ t.id = channelEventTimer

\* C12 as stated, for the queue refresh: no fetchQueue invocation ends with
\* its promise rejected and nothing handling the rejection.
C12_NoUnhandledRejection ==
  reconciled # "rejected"

\* ------------------------------------------------ feed specification
\* The queue manager on one channel with the event feed recorded in full:
\* the feed takes MaxFeed entries before it has to be cleared.
FeedInit ==
  /\ page = "manager"
  /\ LoadInit
  /\ eventFeedEl
  /\ LandingLoadInit /\ landingGrid
  /\ EventsLoadInit
  /\ AdminLoadInit /\ botConsoleLog
  /\ bootStage = "ready"
  /\ setupGuard = ""
  /\ channelButtons = Channels
  /\ feedWindow = MaxFeed
  /\ searchWindow = 0

FeedNext ==
  \/ Len(eventFeed) < MaxFeed /\ ManagerConnection({"c1"})
  \/ \E i \in 1..MaxSockets, data \in Messages :
        Len(eventFeed) < MaxFeed /\ ChannelSocketMessage(i, data)
  \/ ClearFeedClick

FeedSpec == FeedInit /\ [][FeedNext]_vars

\* The entries of the feed that stand for delivered messages.
MessageEntries == SelectSeq(eventFeed, LAMBDA e : e.type # "system")

\* C13: every delivered message that is empty or not JSON ends as a feed
\* entry of type "raw" whose payload is the message's text as it came: the
\* handler runs to its end on it.
C13_MalformedYieldsRaw ==
  \A i \in 1..Len(delivered) :
     JSONparse(delivered[i]) = SyntaxError =>
        /\ i <= Len(MessageEntries)
        /\ MessageEntries[i].type = "raw"
        /\ MessageEntries[i].payload = Field("string", delivered[i])

\* An empty message and a malformed one were delivered and are in the feed.
C13_Witness ==
  /\ \E i, j \in 1..Len(delivered) : delivered[i] = "" /\ delivered[j] = "{bad"
  /\ Len(MessageEntries) = Len(delivered)
  /\ \A i \in 1..Len(MessageEntries) : MessageEntries[i].type = "raw"

\* C14: a delivered message of flat key=value pairs is decoded into its
\* type and its payload: type=queue.status;status=open shows as an event of
\* type queue.status with payload status=open.
C14_FlatPairsDecoded ==
  \A i \in 1..Len(delivered) :
     delivered[i] = FlatMessage =>
        /\ i <= Len(MessageEntries)
        /\ MessageEntries[i].type = "queue.status"
        /\ MessageEntries[i].payload = Field("object", "{\"status\":\"open\"}")

\* The entry handleEventMessage makes of one message.
EntryOf(data) == handleEventMessage(data, [feed |-> <<>>]).feed[1]

\* C17: the feed shows the delivered messages one entry each, in the order
\* of their delivery.
C17_FeedInDeliveryOrder ==
  MessageEntries = [i \in 1..Len(delivered) |-> EntryOf(delivered[i])]

\* Two different messages were delivered one after the other.
C17_Witness ==
  /\ Len(delivered) >= 2
  /\ EntryOf(delivered[1]) # EntryOf(delivered[2])
  /\ Len(MessageEntries) = Len(delivered)

\* C16: the overlay opened without a channel shows its error message for
\* good and has started nothing: no queue request, no stream, no reconnect
\* timeout, no polling interval.
C16_NoChannelStartsNothing ==
  overlayStage = "fatal" =>
     /\ overlayMessage = "Missing channel name"
     /\ \A i \in 1..MaxOverlayFetches : overlayFetches[i] = "free"
     /\ pendingFetch = NoObject
     /\ eventSource = NoObject
     /\ \A i \in 1..MaxSources : sources[i] = Free
     /\ timers = {}
     /\ ~pollTimer

\* The overlay's script has run without a channel.
C16_Witness ==
  page = "overlay" /\ overlayStage = "fatal" /\ overlayMessage = "Missing channel name"

\* ----------------------------------------------- setup specification
\* The queue manager and the public landing page from the start of their
\* scripts, the deployment's setup check included.
SetupInit ==
  /\ page \in {"manager", "landing"}
  /\ LoadInit
  /\ LandingLoadInit
  /\ EventsLoadInit
  /\ AdminLoadInit /\ botConsoleLog
  /\ bootStage = "setup"
  /\ setupGuard = ""
  /\ channelButtons = {}
  /\ feedWindow = 0
  /\ searchWindow = 0

SetupNext ==
  \/ BootNext
  \/ ManagerConnection({"c1"})
  \/ LandingNext

SetupSpec == SetupInit /\ [][SetupNext]_vars

\* The queue manager stopped at its guard has started nothing.
ManagerBlockedStartsNothing ==
  (page = "manager" /\ bootStage = "blocked") =>
     /\ setupGuard # ""
     /\ channelName = ""
     /\ queueFetches = <<>> /\ ~queueFetchActive
     /\ LiveSources = {} /\ LiveSockets = {}
     /\ timers = {}

\* The landing page stopped at its guard has started nothing.
LandingBlockedStartsNothing ==
  (page = "landing" /\ landingStage = "blocked") =>
     /\ setupGuard # ""
     /\ landingLoads = <<>> /\ ~landingLoading
     /\ ~landingInterval

\* C15: when the setup check fails, the page shows its guard message and
\* starts nothing further: no session, no queue or channel request, no
\* stream, no timer, until the page is loaded again.
C15_BlockedStartsNothing ==
  ManagerBlockedStartsNothing /\ LandingBlockedStartsNothing

\* ------------------------------------------------------ event overlay
\* The popup sequencer and the ticker of the event overlay, after sections
\* 3, 4.4 and 4.5 of the specification.  A DisplayEvent is its unique id:
\* the events pushed so far are 1..arrived, in arrival order.
TICKER_LIMIT == 16

PopupState == [queue |-> popupQueue, cards |-> popupCards, shown |-> popupShown]

SetPopup(p) ==
  /\ popupQueue' = p.queue
  /\ popupCards' = p.cards
  /\ popupShown' = p.shown

\* Promotion: the head of the queue gets a card, marked Visible, and its
\* exit timer starts.
promote(p) ==
  IF p.queue = <<>> THEN p
  ELSE [queue |-> Tail(p.queue),
        cards |-> Append(p.cards, [event |-> Head(p.queue), state |-> "Visible"]),
        shown |-> Append(p.shown, Head(p.queue))]

\* Variant of enqueue that takes "no card is currently Visible" by the
\* letter: a card that is Exiting does not hold the next one back.
enqueueDuringExit(event, p) ==
  LET queued == [p EXCEPT !.queue = Append(@, event)]
  IN IF \E i \in 1..Len(p.cards) : p.cards[i].state = "Visible"
       THEN queued
       ELSE promote(queued)

\* enqueue(DisplayEvent): append to the FIFO and promote the head when no
\* card is active.  A card is active from its promotion to its removal
\* (section 3: at most one event is active; section 4.4: 0 or 1 card is
\* Visible/Exiting).
enqueue(event, p) ==
  LET queued == [p EXCEPT !.queue = Append(@, event)]
  IN IF p.cards # <<>> THEN queued ELSE promote(queued)

\* Variant of completion: the card is removed and nothing is promoted.
completeNoPromote(i, p) ==
  [p EXCEPT !.cards = RemoveAt(@, i)]

\* Completion: the card is removed and the next queued item, if any, is
\* promoted.
complete(i, p) ==
  promote([p EXCEPT !.cards = RemoveAt(@, i)])

EventsIdle ==
  UNCHANGED <<page, channelName, eventFeedEl, syncVars, previewVars, rowVars, connVars,
              bootVars, feedVars, overlayVars, landingVars, adminVars>>

\* An event is routed to the popup sequencer.
PopupEnqueue ==
  /\ page = "popup"
  /\ arrived < MaxEvents
  /\ arrived' = arrived + 1
  /\ SetPopup(enqueue(arrived + 1, PopupState))
  /\ UNCHANGED tickerBuffer
  /\ EventsIdle

\* The exit timer of card i fires: the card is marked Exiting.
PopupExitTimer(i) ==
  /\ page = "popup"
  /\ i \in 1..Len(popupCards)
  /\ popupCards[i].state = "Visible"
  /\ popupCards' = [popupCards EXCEPT ![i].state = "Exiting"]
  /\ UNCHANGED <<arrived, popupQueue, popupShown, tickerBuffer>>
  /\ EventsIdle

\* The explicit trigger marks card i Exiting before its timer fires.
PopupExitTrigger(i) ==
  /\ page = "popup"
  /\ i \in 1..Len(popupCards)
  /\ popupCards[i].state = "Visible"
  /\ popupCards' = [popupCards EXCEPT ![i].state = "Exiting"]
  /\ UNCHANGED <<arrived, popupQueue, popupShown, tickerBuffer>>
  /\ EventsIdle

\* The animation-end signal of the exit animation of card i.
PopupAnimationEnd(i) ==
  /\ page = "popup"
  /\ i \in 1..Len(popupCards)
  /\ popupCards[i].state = "Exiting"
  /\ SetPopup(complete(i, PopupState))
  /\ UNCHANGED <<arrived, tickerBuffer>>
  /\ EventsIdle

\* Variant of the ticker's push: nothing is evicted.
tickerPushKeepAll(event, buffer) ==
  Append(buffer, event)

\* The ticker's push: the buffer takes the event and drops its oldest
\* entries beyond TICKER_LIMIT.
tickerPush(event, buffer) ==
  LET added == Append(buffer, event)
  IN IF Len(added) > TICKER_LIMIT
       THEN SubSeq(added, Len(added) - TICKER_LIMIT + 1, Len(added))
       ELSE added

\* An event is routed to the ticker.
TickerPush ==
  /\ page = "ticker"
  /\ arrived < MaxEvents
  /\ arrived' = arrived + 1
  /\ tickerBuffer' = tickerPush(arrived + 1, tickerBuffer)
  /\ UNCHANGED <<popupQueue, popupCards, popupShown>>
  /\ EventsIdle

PopupExits == \E i \in 1..Len(popupCards) : PopupExitTimer(i)
PopupAnimationEnds == \E i \in 1..Len(popupCards) : PopupAnimationEnd(i)

EventsInit ==
  /\ page \in {"popup", "ticker"}
  /\ LoadInit
  /\ ~eventFeedEl
  /\ LandingLoadInit /\ landingGrid
  /\ EventsLoadInit
  /\ AdminLoadInit /\ botConsoleLog
  /\ bootStage = "setup"
  /\ setupGuard = ""
  /\ channelButtons = {}
  /\ feedWindow = 0
  /\ searchWindow = 0

EventsNext ==
  \/ PopupEnqueue
  \/ PopupExits
  \/ \E i \in 1..Len(popupCards) : PopupExitTrigger(i)
  \/ PopupAnimationEnds
  \/ TickerPush

\* Exit timers fire and exit animations end.
EventsSpec ==
  /\ EventsInit
  /\ [][EventsNext]_vars
  /\ WF_vars(PopupExits)
  /\ WF_vars(PopupAnimationEnds)

\* The step promotes a queued event to a card.
Promoted == Len(popupShown') > Len(popupShown)

C19_AllShownInOrder ==
  page = "popup" =>
     /\ [](popupShown = [i \in 1..Len(popupShown) |-> i])
     /\ [](Len(popupShown) + Len(popupQueue) = arrived)
     /\ \A n \in 1..MaxEvents : (arrived >= n) ~> (Len(popupShown) >= n)
     /\ <>[](popupQueue = <<>> /\ popupCards = <<>>)

\* Several events were enqueued; all of them were shown and the queue is
\* empty again.
C19_Witness ==
  /\ page = "popup"
  /\ arrived >= 3
  /\ Len(popupShown) = arrived
  /\ popupQueue = <<>>
  /\ popupCards = <<>>

\* The newest k events, in arrival order.
Newest(k) == [i \in 1..k |-> arrived - k + i]

\* C20: the ticker's buffer never holds more than 16 items and always is
\* the most recent ones in arrival order: a push onto a full buffer evicts
\* the oldest item.
C20_TickerKeepsNewest ==
  page = "ticker" =>
     /\ Len(tickerBuffer) <= TICKER_LIMIT
     /\ tickerBuffer = Newest(IF arrived < TICKER_LIMIT THEN arrived ELSE TICKER_LIMIT)

\* A seventeenth item was pushed: the first one is gone.
C20_Witness ==
  /\ arrived > TICKER_LIMIT
  /\ Len(tickerBuffer) = TICKER_LIMIT
  /\ tickerBuffer[1] = arrived - TICKER_LIMIT + 1

\* The event socket's connection state, from the objects of the page.
SocketAttempting ==
  channelEventSocket # NoObject /\ sockets[channelEventSocket].state = "connecting"
SocketOpen ==
  channelEventSocket # NoObject /\ sockets[channelEventSocket].state = "open"
SocketRetryPending ==
  channelEventSocket = NoObject /\ ReconnectTimers("connectChannelEvents") # {}
SocketDown ==
  channelEventSocket = NoObject /\ ReconnectTimers("connectChannelEvents") = {}

\* C21: the status text tells the event socket's connection state:
\* Connecting... exactly while an attempt is in progress, Connected exactly
\* while the socket is open, Reconnecting... only while the page waits to
\* retry, Disconnected only while there is neither a socket nor a retry; a
\* pending retry shows as Reconnecting... (after a drop) or as Connection
\* failed (after a socket that could not be created).
C21_StatusTellsState ==
  page = "manager" =>
    /\ eventStatus \in {"", "Connecting...", "Connected", "Reconnecting...", "Disconnected",
                        "Connection failed"}
    /\ (eventStatus = "Connecting...") <=> SocketAttempting
    /\ (eventStatus = "Connected") <=> SocketOpen
    /\ (eventStatus \in {"Reconnecting...", "Connection failed"}) <=> SocketRetryPending
    /\ (eventStatus \in {"", "Disconnected"}) <=> SocketDown
    /\ (eventStatus = "") => (channelName = "" /\ LiveSockets = {})

\* The socket of the current channel is open and shown as Connected while
\* the socket of an earlier selection is still closing.
C21_Witness ==
  /\ eventStatus = "Connected"
  /\ SocketOpen
  /\ \E i \in 1..MaxSockets : sockets[i].state = "closing"

\* C22 as stated: in the queue overlay at most one refresh that has not
\* been aborted is in flight.
C22_OneRunningRefresh ==
  Cardinality({i \in 1..MaxOverlayFetches : overlayFetches[i] = "running"}) <= 1

\* --------------------------------------------- preview specification
\* The queue manager on one channel with the preview's searches recorded:
\* a search is in flight from its load until its answer.
PreviewBodies ==
  {ArrayBody(<<>>), ArrayBody(<<QueueEntry(1, SongVideo)>>),
   ArrayBody(<<QueueEntry(1, SongNullLink)>>)}

PreviewInit ==
  /\ page = "manager"
  /\ LoadInit
  /\ eventFeedEl
  /\ LandingLoadInit /\ landingGrid
  /\ EventsLoadInit
  /\ AdminLoadInit /\ botConsoleLog
  /\ bootStage = "ready"
  /\ setupGuard = ""
  /\ channelButtons = Channels
  /\ feedWindow = 0
  /\ searchWindow = MaxToken

PreviewNext ==
  \/ SelectChannel("c1", FALSE, FALSE)
  \/ ManagerFetchNext(PreviewBodies)
  \/ \E i \in 1..Len(previewSearches), outcome \in SearchOutcomes :
        PreviewSearchSettles(i, outcome)

PreviewSpec == PreviewInit /\ [][PreviewNext]_vars

\* What the preview shows.
PreviewShown ==
  <<currentPreviewRequestId, currentPreviewSourceKey, currentPreviewVideoId,
    currentPreviewLink, previewResults>>

\* The step is the answer of a search begun before the latest load or reset.
StaleSearchSettles ==
  \E i \in 1..Len(previewSearches) :
    /\ previewSearches[i].token # previewSearchToken
    /\ previewSearches' = RemoveAt(previewSearches, i)

\* C23: the answer of a search, success or failure, is applied only when no
\* later load or reset has started: a stale answer changes nothing of the
\* preview, at most one search in flight is the current one, and while no
\* request is selected the preview stays empty.
C23_StaleSearchIgnored ==
  /\ [][StaleSearchSettles => UNCHANGED PreviewShown]_vars
  /\ [](\A i, j \in 1..Len(previewSearches) :
          /\ previewSearches[i].token <= previewSearchToken
          /\ previewSearches[i].token = previewSearches[j].token => i = j)
  /\ [](currentPreviewRequestId = NoRequest =>
          /\ currentPreviewVideoId = NULL
          /\ currentPreviewLink = ""
          /\ previewResults = "default")

\* The selection was cleared while the search of a request without a video
\* was in flight.
C23_Witness ==
  /\ currentPreviewRequestId = NoRequest
  /\ \E i \in 1..Len(previewSearches) :
        /\ previewSearches[i].token # previewSearchToken
        /\ previewSearches[i].requestVideoId = NULL

\* C24: neither the queue stream nor the event socket (nor the overlay's
\* stream) ever has a live transport and a pending reconnect timeout at the
\* same time, and none has more than one pending reconnect timeout.
C24_TransportOrTimer ==
  /\ \A callback \in {"connectQueueStream", "connectChannelEvents", "setupStream"} :
        Cardinality(ReconnectTimers(callback)) <= 1
  /\ LiveSources # {} =>
        /\ ReconnectTimers("connectQueueStream") = {}
        /\ ReconnectTimers("setupStream") = {}
  /\ LiveSockets # {} => ReconnectTimers("connectChannelEvents") = {}

\* The stream is live again while the socket waits for its retry.
C24_Witness ==
  /\ page = "manager"
  /\ LiveSources # {}
  /\ ReconnectTimers("connectChannelEvents") # {}
  /\ LiveSockets = {}
  /\ eventStatus = "Reconnecting..."
  /\ ReconnectTimers("connectQueueStream") = {}
\* A queue refresh ends while still waiting for its response: with a non-OK
\* response, or with a rejected request.
RefreshEndsUnanswered ==
  /\ Len(queueFetches) = 1
  /\ queueFetches[1].phase = "fetch"
  /\ InFlightFinishes

\* C25: a queue refresh that receives a non-OK response leaves the rendered
\* queue, the selection and the preview untouched; all it does is release the
\* in-flight guard and, if a refresh was queued behind it (and a channel is
\* still selected), start that trailing refresh.
C25_NonOkLeavesQueue ==
  [][RefreshEndsUnanswered =>
       /\ UNCHANGED <<queueRows, selectedRows, previewVars, channelName, connVars>>
       /\ ~queueFetchQueued'
       /\ IF queueFetchQueued /\ channelName # ""
            THEN OneRequestIssued
            ELSE NoRequestIssued]_vars

\* A non-OK response has ended the latest refresh, leaving the rows rendered
\* before it and the selected request in place.
C25_Witness ==
  /\ reconciled = "not ok"
  /\ queueRows # <<>>
  /\ selectedRows # {}
  /\ currentPreviewRequestId # NoRequest
  /\ ~queueFetchActive
\* A queue refresh is in flight for a channel other than the selected one:
\* the dashboard has switched channel since the refresh was issued.
SwitchedInFlight ==
  /\ channelName # ""
  /\ Len(queueFetches) = 1
  /\ queueFetches[1].channel # channelName

RefreshForCurrent ==
  /\ Len(queueFetches) = 1
  /\ queueFetches[1].channel = channelName

\* C26: while a queue refresh issued for a previous channel is in flight, a
\* trailing refresh is queued; the step that completes the in-flight refresh
\* issues a request for the channel selected at that moment; and so a switch
\* made during a refresh is always followed by a refresh for the current
\* channel (as long as a channel is selected).
C26_LastRefreshForCurrent ==
  /\ [](SwitchedInFlight => queueFetchQueued)
  /\ [][SwitchedInFlight /\ InFlightFinishes =>
          /\ OneRequestIssued
          /\ queueFetches'[1].channel = channelName
          /\ channelName' = channelName]_vars
  /\ (SwitchedInFlight ~> (channelName = "" \/ RefreshForCurrent))

\* The dashboard has switched from c1 to c2 while the refresh for c1 was in
\* flight: the refresh for c1 is still outstanding and the trailing one is
\* queued.
C26_Witness ==
  /\ channelName = "c2"
  /\ Len(queueFetches) = 1
  /\ queueFetches[1].channel = "c1"
  /\ queueFetches[1].phase = "json"
  /\ queueFetchQueued
\* The step is the `open` event of the stream the page is listening to.
StreamOpens ==
  \E i \in 1..MaxSources :
    /\ sources[i].state = "connecting"
    /\ sources[i].attached
    /\ sources'[i].state = "open"

\* C27: every time the change-notification stream opens or reopens, a queue
\* refresh is triggered. On the dashboard the step issues a queue request, or
\* (a request being in flight) leaves the trailing refresh queued; on the
\* overlay the step starts a new refresh, which becomes the pending one.
C27_OpenTriggersRefresh ==
  [][StreamOpens =>
       /\ page = "manager" =>
             \/ ~queueFetchActive /\ OneRequestIssued /\ queueFetches'[1].channel = channelName
             \/ queueFetchActive /\ queueFetchQueued' /\ queueFetches' = queueFetches
       /\ page = "overlay" =>
             /\ pendingFetch' # NoObject
             /\ overlayFetches[pendingFetch'] = "free"
             /\ overlayFetches'[pendingFetch'] = "running"]_vars

\* The dashboard's stream has reconnected after the queue had been rendered:
\* the stream is open, no reconnect is pending, and a refresh that no
\* notification asked for is in flight.
C27_Witness ==
  /\ page = "manager"
  /\ queueStream # NoObject
  /\ sources[queueStream].state = "open"
  /\ queueStreamTimer = NoObject
  /\ queueRows # <<>>
  /\ Len(queueFetches) = 1
  /\ queueFetches[1].phase = "fetch"
  /\ ~queueFetches[1].trailing
  /\ ~queueFetchQueued
\* ------------------------------------------------------- admin console
CONSOLE_LIMIT == 200

toUpperCase(text) ==
  CASE text = "error" -> "ERROR"
    [] text = "warning" -> "WARNING"
    [] text = "info" -> "INFO"
    [] OTHER -> text

\* What the `log` listener reads of a parsed event: type, level, message and
\* source ("" stands for a missing property: each use is `x || default`).
ConsoleEvent(kind, type, level, message, source) ==
  [kind |-> kind, type |-> type, level |-> level, message |-> message, source |-> source]

EmptyData == ""
ReadyData == "{\"type\":\"ready\"}"
ErrorLine == "{\"level\":\"ERROR\",\"message\":\"m1\",\"source\":\"bot\"}"
PlainLine == "{\"message\":\"m2\"}"
NullData == "null"
BrokenData == "{\"level\":"
ConsoleData == {EmptyData, ReadyData, ErrorLine, PlainLine, NullData, BrokenData}

consoleJSONparse(data) ==
  CASE data = ReadyData -> ConsoleEvent("object", "ready", "", "", "")
    [] data = ErrorLine -> ConsoleEvent("object", "", "ERROR", "m1", "bot")
    [] data = PlainLine -> ConsoleEvent("object", "", "", "m2", "")
    [] data = NullData -> ConsoleEvent("null", "", "", "", "")
    [] OTHER -> ConsoleEvent("SyntaxError", "", "", "", "")

\* The row appendConsoleEntry builds (the time label is left out).
ConsoleRow(event) ==
  LET level == toLowerCase(IF event.level = "" THEN "info" ELSE event.level)
  IN [className |-> "console-entry level-" \o level, level |-> toUpperCase(level),
      message |-> event.message, source |-> event.source]

\* Faulty variant of appendConsoleEntry: at the limit the new row is dropped.
appendConsoleEntryDropNew(event, rows) ==
  IF ~botConsoleLog THEN rows
  ELSE IF Len(rows) >= CONSOLE_LIMIT THEN rows
  ELSE Append(rows, ConsoleRow(event))

\* appendConsoleEntry(event)
appendConsoleEntry(event, rows) ==
  LET added == Append(rows, ConsoleRow(event))
  IN IF ~botConsoleLog THEN rows
     ELSE IF Len(added) > CONSOLE_LIMIT
       THEN SubSeq(added, Len(added) - CONSOLE_LIMIT + 1, Len(added))
       ELSE added

\* The `log` listener of the console stream: empty data is skipped, a `ready`
\* event only sets the status, an exception (JSON.parse, or reading a
\* property of null) is caught and logged.
consoleOnLog(data, rows) ==
  LET payload == consoleJSONparse(data)
  IN IF data = EmptyData THEN rows
     ELSE IF payload.kind # "object" THEN rows
     ELSE IF payload.type = "ready" THEN rows
     ELSE appendConsoleEntry(payload, rows)

AdminIdle ==
  UNCHANGED <<page, channelName, eventFeedEl, syncVars, previewVars, rowVars, connVars,
              bootVars, feedVars, overlayVars, landingVars, eventsVars>>

\* The signed-in user is loaded and connectBotConsole() opens the stream.
ConnectBotConsole(throws) ==
  /\ page = "admin"
  /\ ~botConsoleSource
  /\ botConsoleLog
  /\ botConsoleSource' = ~throws
  /\ AdminIdle
  /\ UNCHANGED <<botConsoleLog, consoleRows, consoleAppended, songCache, userCache, promises, lookups>>

\* The console stream delivers a `log` event.
ConsoleLog(data) ==
  /\ page = "admin"
  /\ botConsoleSource
  /\ consoleRows' = consoleOnLog(data, consoleRows)
  /\ consoleAppended' = IF consoleOnLog(data, <<>>) = <<>> THEN consoleAppended
                        ELSE consoleAppended + 1
  /\ AdminIdle
  /\ UNCHANGED <<botConsoleLog, botConsoleSource, songCache, userCache, promises, lookups>>

\* A click on the console's clear button: clearBotConsole().
ClearConsoleClick ==
  /\ page = "admin"
  /\ botConsoleLog
  /\ consoleRows' = <<>>
  /\ consoleAppended' = 0
  /\ AdminIdle
  /\ UNCHANGED <<botConsoleLog, botConsoleSource, songCache, userCache, promises, lookups>>
\* Logout on the admin page: disconnectBotConsole(), clearBotConsole().
AdminLogout ==
  /\ page = "admin"
  /\ botConsoleSource' = FALSE
  /\ consoleRows' = IF botConsoleLog THEN <<>> ELSE consoleRows
  /\ consoleAppended' = 0
  /\ AdminIdle
  /\ UNCHANGED <<botConsoleLog, songCache, userCache, promises, lookups>>

\* ------------------------------------------- log limit specification
\* The dashboard's event feed and the admin console filled up to their limit
\* and MaxOverflow entries beyond it. Up to MaxOverflow entries before the
\* limit the same message arrives every time; from there on any message.
MaxOverflow == 2

LimitInit ==
  /\ page \in {"manager", "admin"}
  /\ LoadInit
  /\ eventFeedEl
  /\ LandingLoadInit /\ landingGrid
  /\ EventsLoadInit
  /\ AdminLoadInit /\ botConsoleLog
  /\ bootStage = "ready"
  /\ setupGuard = ""
  /\ channelButtons = Channels
  /\ feedWindow = EVENT_FEED_LIMIT + 1
  /\ searchWindow = 0

LimitNext ==
  \/ SelectChannel("c1", FALSE, FALSE)
  \/ \E i \in 1..MaxSockets : ChannelSocketOpens(i)
  \/ \E i \in 1..MaxSockets, data \in Messages :
        /\ Len(delivered) < EVENT_FEED_LIMIT + MaxOverflow
        /\ Len(delivered) < EVENT_FEED_LIMIT - MaxOverflow => data = FullMessage
        /\ ChannelSocketMessage(i, data)
  \/ \E throws \in BOOLEAN : ConnectBotConsole(throws)
  \/ \E data \in ConsoleData :
        /\ consoleAppended < CONSOLE_LIMIT + MaxOverflow
        /\ consoleAppended < CONSOLE_LIMIT - MaxOverflow => data \in {PlainLine, ReadyData}
        /\ ConsoleLog(data)
  \/ ClearConsoleClick
  \/ AdminLogout

LimitSpec == LimitInit /\ [][LimitNext]_vars

\* The newest n elements of a sequence, in their order.
LastN(seq, n) ==
  IF Len(seq) <= n THEN seq ELSE SubSeq(seq, Len(seq) - n + 1, Len(seq))

\* C28: the event feed never holds more than EVENT_FEED_LIMIT entries and the
\* admin console never more than CONSOLE_LIMIT rows; delivering a message (a
\* log line) puts one entry at the end and, beyond the limit, removes the
\* oldest, so the log is always the most recent entries in arrival order.
C28_LogsKeepNewest ==
  /\ [](Len(eventFeed) <= EVENT_FEED_LIMIT /\ Len(consoleRows) <= CONSOLE_LIMIT)
  /\ [][Len(delivered') = Len(delivered) + 1 =>
          /\ eventFeed' # <<>>
          /\ eventFeed' = LastN(Append(eventFeed, eventFeed'[Len(eventFeed')]), EVENT_FEED_LIMIT)]_vars
  /\ [][consoleAppended' = consoleAppended + 1 =>
          /\ consoleRows' # <<>>
          /\ consoleRows' = LastN(Append(consoleRows, consoleRows'[Len(consoleRows')]), CONSOLE_LIMIT)]_vars

\* The console has taken more log lines than its limit: it is full, its
\* oldest rows are gone and the newest line, an ERROR one, is its last row.
C28_Witness ==
  /\ consoleAppended > CONSOLE_LIMIT
  /\ Len(consoleRows) = CONSOLE_LIMIT
  /\ consoleRows[CONSOLE_LIMIT].level = "ERROR"
  /\ consoleRows[CONSOLE_LIMIT - 1].level = "INFO"
\* ------------------------------------------------ song and user caches
MaxLookups == 3

\* The two Maps and the promises stored in them as one value. A promise is
\* named by its position in `promises`; it remembers the request it stands
\* for (which cache, which key, the channel as spelled in the URL).
CacheState == [songCache |-> songCache, userCache |-> userCache, promises |-> promises]

SetCache(a) ==
  /\ songCache' = a.songCache
  /\ userCache' = a.userCache
  /\ promises' = a.promises

Request(cache, channel, id) ==
  [cache |-> cache, key |-> CacheKey(channel, id), channel |-> channel, state |-> "pending"]

\* Faulty variant of getSong: every call issues a request and stores it.
getSongUncached(channel, id, a) ==
  LET key == CacheKey(channel, id)
  IN [a EXCEPT !.promises = Append(@, Request("song", channel, id)),
               !.songCache[key] = Len(a.promises) + 1]

\* getSong(channel, id) of the admin script: lines 146-157
getSong(channel, id, a) ==
  LET key == CacheKey(channel, id)
  IN IF a.songCache[key] = NoObject
       THEN [a EXCEPT !.promises = Append(@, Request("song", channel, id)),
                      !.songCache[key] = Len(a.promises) + 1]
       ELSE a

\* getUser(channel, id) of the admin script: lines 159-170
getUser(channel, id, a) ==
  LET key == CacheKey(channel, id)
  IN IF a.userCache[key] = NoObject
       THEN [a EXCEPT !.promises = Append(@, Request("user", channel, id)),
                      !.userCache[key] = Len(a.promises) + 1]
       ELSE a

\* getSong(channel, id) of stats.js: lines 91-102
statsGetSong(channel, id, a) ==
  LET key == CacheKey(channel, id)
  IN IF a.songCache[key] = NoObject
       THEN [a EXCEPT !.promises = Append(@, Request("song", channel, id)),
                      !.songCache[key] = Len(a.promises) + 1]
       ELSE a

\* The promise of fetchJson settles. On rejection the .catch callback
\* deletes the key from the cache the request was made for and rethrows.
fetchJsonSettles(i, ok, a) ==
  LET p == a.promises[i]
  IN IF ok THEN [a EXCEPT !.promises[i].state = "fulfilled"]
     ELSE IF p.cache = "song"
       THEN [a EXCEPT !.promises[i].state = "rejected", !.songCache[p.key] = NoObject]
       ELSE [a EXCEPT !.promises[i].state = "rejected", !.userCache[p.key] = NoObject]

CacheIdle ==
  /\ AdminIdle
  /\ UNCHANGED <<botConsoleLog, botConsoleSource, consoleRows, consoleAppended>>

\* A request of the page is rendered and looks its song up.
LookupSong(channel, id) ==
  /\ page \in {"admin", "stats"}
  /\ Len(lookups) < MaxLookups
  /\ IF page = "admin"
       THEN SetCache(getSong(channel, id, CacheState))
       ELSE SetCache(statsGetSong(channel, id, CacheState))
  /\ lookups' = Append(lookups, [cache |-> "song", key |-> CacheKey(channel, id)])
  /\ CacheIdle

\* A request of the admin page is rendered and looks its user up.
LookupUser(channel, id) ==
  /\ page = "admin"
  /\ Len(lookups) < MaxLookups
  /\ SetCache(getUser(channel, id, CacheState))
  /\ lookups' = Append(lookups, [cache |-> "user", key |-> CacheKey(channel, id)])
  /\ CacheIdle

\* The request behind promise i succeeds or fails.
FetchJsonSettles(i, ok) ==
  /\ page \in {"admin", "stats"}
  /\ i \in 1..Len(promises)
  /\ promises[i].state = "pending"
  /\ SetCache(fetchJsonSettles(i, ok, CacheState))
  /\ UNCHANGED lookups
  /\ CacheIdle

CacheInit ==
  /\ page \in {"admin", "stats"}
  /\ LoadInit
  /\ LandingLoadInit /\ landingGrid
  /\ EventsLoadInit
  /\ AdminLoadInit /\ botConsoleLog
  /\ bootStage = "ready"
  /\ setupGuard = ""
  /\ channelButtons = Channels
  /\ feedWindow = 0
  /\ searchWindow = 0

CacheNext ==
  \/ \E channel \in LookupChannels, id \in LookupIds : LookupSong(channel, id)
  \/ \E channel \in LookupChannels, id \in LookupIds : LookupUser(channel, id)
  \/ \E i \in 1..MaxLookups, ok \in BOOLEAN : FetchJsonSettles(i, ok)

CacheSpec == CacheInit /\ [][CacheNext]_vars

\* The cache a lookup goes to, and the promises made for a key of a cache.
CacheOf(name) == IF name = "song" THEN songCache ELSE userCache
CacheOfNext(name) == IF name = "song" THEN songCache' ELSE userCache'
PromisesFor(name, key, state) ==
  {i \in 1..Len(promises) :
     promises[i].cache = name /\ promises[i].key = key /\ promises[i].state = state}

\* C29: in the song and user caches a key never has two requests pending; an
\* entry is the key's pending or fulfilled promise and a failed promise is no
\* entry; a lookup of a key that has an entry issues no request and leaves
\* the caches alone; a lookup of a key that has none (never looked up, or
\* removed after a failure) issues exactly one request and stores it.
C29_CacheSharesRequests ==
  /\ [](\A name \in {"song", "user"}, key \in CacheKeys :
          /\ Cardinality(PromisesFor(name, key, "pending")) <= 1
          /\ Cardinality(PromisesFor(name, key, "pending") \cup PromisesFor(name, key, "fulfilled")) <= 1
          /\ CacheOf(name)[key] # NoObject =>
                CacheOf(name)[key] \in
                   PromisesFor(name, key, "pending") \cup PromisesFor(name, key, "fulfilled")
          /\ CacheOf(name)[key] = NoObject =>
                PromisesFor(name, key, "pending") \cup PromisesFor(name, key, "fulfilled") = {})
  /\ [][Len(lookups') = Len(lookups) + 1 =>
          LET call == lookups'[Len(lookups')]
          IN IF CacheOf(call.cache)[call.key] # NoObject
               THEN UNCHANGED <<songCache, userCache, promises>>
               ELSE /\ Len(promises') = Len(promises) + 1
                    /\ SubSeq(promises', 1, Len(promises)) = promises
                    /\ promises'[Len(promises')].cache = call.cache
                    /\ promises'[Len(promises')].key = call.key
                    /\ promises'[Len(promises')].state = "pending"
                    /\ CacheOfNext(call.cache)[call.key] = Len(promises')
                    /\ \A name \in {"song", "user"}, key \in CacheKeys :
                          <<name, key>> # <<call.cache, call.key>> =>
                             CacheOfNext(name)[key] = CacheOf(name)[key]]_vars
  /\ [][\A i \in 1..Len(promises) :
            promises[i].state = "pending" /\ promises'[i].state = "rejected" =>
               CacheOfNext(promises[i].cache)[promises[i].key] = NoObject]_vars

\* Three lookups of one song, spelled c1 and C1: the first request failed,
\* the second lookup issued a new request, which is stored, and the third
\* lookup shared it.
C29_Witness ==
  /\ Len(lookups) = 3
  /\ \A i \in 1..3 : lookups[i] = [cache |-> "song", key |-> CacheKey("c1", 1)]
  /\ Len(promises) = 2
  /\ promises[1].state = "rejected"
  /\ promises[2].state = "fulfilled"
  /\ promises[1].channel # promises[2].channel
  /\ songCache[CacheKey("C1", 1)] = 2
\* ------------------------------------------- landing page, loads settle
\* The landing page (and the queue manager's start) with every await of a
\* channel load settling eventually.
LandingLoadProgresses ==
  \E i \in 1..Len(landingLoads), outcome \in {"empty", "list", "error"} :
     LandingLoadSettles(i, outcome)

LandingFairSpec == SetupInit /\ [][SetupNext]_vars /\ WF_vars(LandingLoadProgresses)

\* C30: on the landing page at most one channel load is in progress and the
\* loading flag is set exactly while one is; every step that ends a load
\* (empty list, rendered list, error) leaves the flag cleared, a call that
\* finds no grid leaves it cleared, and so the flag never stays set.
C30_OneLandingLoad ==
  /\ [](page = "landing" =>
          /\ Len(landingLoads) <= 1
          /\ landingLoading <=> Len(landingLoads) = 1)
  /\ [][Len(landingLoads') < Len(landingLoads) => ~landingLoading']_vars
  /\ (landingLoading ~> ~landingLoading)

\* The load started after the setup check has ended, and the flag is clear
\* for the next one.
C30_Witness ==
  /\ page = "landing"
  /\ landingStage = "ready"
  /\ landingGrid
  /\ landingLoads = <<>>
  /\ ~landingLoading
====
